---- MODULE Spec2Model ----
(***************************************************************************)
(* Model of the resonance perception pipeline of TKanX/resonance:          *)
(* ChemicalPerception::from_graph (graph build, SSSR ring finding,         *)
(* aromaticity, kekulization, atomic state, conjugation candidates) and    *)
(* resonance::find_systems, as driven by find_resonance_systems.           *)
(*                                                                         *)
(* Conventions.  Rust vectors are sequences; a Rust index i is the model   *)
(* index i+1 (the order of indices, which is all the code relies on, is    *)
(* preserved).  Atom and bond ids are natural numbers that are unrelated   *)
(* to indices.  HashMap<K,V> is a function, HashSet<T> is a set; where the *)
(* code iterates a hash container the iteration order is a parameter.      *)
(* Option<BondOrder> is an order string or "None".                         *)
(***************************************************************************)
EXTENDS Naturals, Integers, Sequences, FiniteSets, TLC

VARIABLES
  input,             \* the MoleculeGraph handed to find_resonance_systems
  pc,                \* position inside find_resonance_systems / from_graph
  atoms,             \* ChemicalPerception.atoms
  bonds,             \* ChemicalPerception.bonds
  adjacency,         \* ChemicalPerception.adjacency
  atom_id_to_index,  \* ChemicalPerception.atom_id_to_index
  bond_id_to_index,  \* ChemicalPerception.bond_id_to_index
  ring_info,         \* ChemicalPerception.ring_info.rings
  total_attempts,    \* kekulize's attempt counter
  kekulize_bond_idx, \* kekulize's loop variable bond_idx
  kekulize_visited,  \* kekulize's visited_bonds (the set of marked indices)
  valence_bond_idx,  \* compute_valence's position in its bond loop (0: not begun)
  molecule,          \* a molecule::Molecule under construction
  last_call,         \* the latest add_atom / add_bond call and what it returned
  result             \* value returned by find_resonance_systems

vars == <<input, pc, atoms, bonds, adjacency, atom_id_to_index,
          bond_id_to_index, ring_info, total_attempts, kekulize_bond_idx,
          kekulize_visited, valence_bond_idx, molecule, last_call, result>>

(***************************************************************************)
(* Generic helpers                                                         *)
(***************************************************************************)
Range(s) == {s[i] : i \in DOMAIN s}

Min2(a, b) == IF a <= b THEN a ELSE b

Max2(a, b) == IF a >= b THEN a ELSE b

MaxOf(S) == CHOOSE x \in S : \A y \in S : y <= x

MinOf(S) == CHOOSE x \in S : \A y \in S : x <= y

\* sort_unstable() followed by dedup() on a Vec<usize>: the ascending
\* sequence of the distinct elements.
RECURSIVE SortedSeqOf(_)
SortedSeqOf(S) ==
  IF S = {} THEN <<>>
  ELSE LET m == MinOf(S) IN <<m>> \o SortedSeqOf(S \ {m})

RECURSIVE DescSeqOf(_)
DescSeqOf(S) ==
  IF S = {} THEN <<>>
  ELSE LET m == MaxOf(S) IN <<m>> \o DescSeqOf(S \ {m})

\* Vec<usize> comparison (Ord for slices): lexicographic, a proper prefix
\* is smaller.
RECURSIVE LexLess(_, _)
LexLess(a, b) ==
  IF a = <<>> THEN b # <<>>
  ELSE IF b = <<>> THEN FALSE
  ELSE IF Head(a) < Head(b) THEN TRUE
  ELSE IF Head(a) > Head(b) THEN FALSE
  ELSE LexLess(Tail(a), Tail(b))

StrictlyAscending(s) == \A i \in 1..(Len(s) - 1) : s[i] < s[i + 1]

\* All orders in which a hash container of the elements of S can be
\* iterated (every permutation up to MaxHashPerm elements, the two
\* monotone orders and one rotation beyond that).
MaxHashPerm == 3

Perms(S) ==
  {s \in [1..Cardinality(S) -> S] : \A i, j \in DOMAIN s : i # j => s[i] # s[j]}

IterOrders(S) ==
  IF Cardinality(S) <= MaxHashPerm THEN Perms(S)
  ELSE LET a == SortedSeqOf(S) IN {a, DescSeqOf(S), Tail(a) \o <<Head(a)>>}

(***************************************************************************)
(* core::atom::Element, core::bond::BondOrder                              *)
(***************************************************************************)
Elements == {"H", "B", "C", "N", "O", "F", "P", "S", "Cl", "Fe"}

BondOrders == {"Single", "Double", "Triple", "Aromatic"}

valence_electrons(e) ==
  CASE e = "H" -> 1
    [] e = "B" -> 3
    [] e = "C" -> 4
    [] e \in {"N", "P"} -> 5
    [] e \in {"O", "S"} -> 6
    [] e \in {"F", "Cl"} -> 7
    [] OTHER -> -1     \* None

is_common_conjugation_element(e) ==
  e \in {"B", "C", "N", "O", "P", "S", "Si", "As", "Se", "Ge", "F", "Cl", "Br", "I"}

multiplicity(o) ==
  CASE o = "Single" -> 1
    [] o = "Double" -> 2
    [] o = "Triple" -> 3
    [] o = "Aromatic" -> 1

(***************************************************************************)
(* Inputs: graphs exposing atoms() and bonds()                             *)
(***************************************************************************)
AtomView(id, element, charge) ==
  [id |-> id, element |-> element, formal_charge |-> charge]

BondView(id, order, s, e) ==
  [id |-> id, order |-> order, start_atom_id |-> s, end_atom_id |-> e]

Graph(as, bs) == [atoms |-> as, bonds |-> bs]

\* A graph laid out as Molecule lays it out: atom i has id i-1, the k-th
\* bond has id k-1.  els: sequence of <<element, charge>>; edges: sequence
\* of <<start id, end id, order>>.
Mol(els, edges) ==
  Graph([i \in 1..Len(els) |-> AtomView(i - 1, els[i][1], els[i][2])],
        [k \in 1..Len(edges) |-> BondView(k - 1, edges[k][3], edges[k][1], edges[k][2])])

\* n neutral carbons and the given edges, all Single.
Carbons(n, pairs) ==
  Mol([i \in 1..n |-> <<"C", 0>>],
      [k \in 1..Len(pairs) |-> <<pairs[k][1], pairs[k][2], "Single">>])

(***************************************************************************)
(* molecule.rs: Molecule                                                   *)
(***************************************************************************)
Molecule_new == [atoms |-> <<>>, bonds |-> <<>>, adjacency |-> <<>>]

\* Result<BondId, MoleculeBuildError> of add_bond, and add_atom's return
NoCall ==
  [op |-> "none", start |-> 0, end |-> 0, before |-> Molecule_new,
   ret |-> [op |-> "none", type |-> "Ok", a |-> 0, b |-> 0]]

Returned(op, type, a, b) == [op |-> op, type |-> type, a |-> a, b |-> b]

\* add_atom, lines 96-105
add_atom(m, element, formal_charge) ==
  [molecule |-> [m EXCEPT !.atoms = Append(@, AtomView(Len(m.atoms), element, formal_charge)),
                          !.adjacency = Append(@, <<>>)],
   ret |-> Returned("add_atom", "Ok", Len(m.atoms), 0)]

saturating_sub(a, b) == IF a >= b THEN a - b ELSE 0

connects_as_given(bond, start_id, end_id) ==
  bond.start_atom_id = start_id /\ bond.end_atom_id = end_id

\* add_bond, lines 147-149: the bond joins the two atoms, in either direction
connects(bond, start_id, end_id) ==
  \/ (bond.start_atom_id = start_id /\ bond.end_atom_id = end_id)
  \/ (bond.start_atom_id = end_id /\ bond.end_atom_id = start_id)

\* add_bond, lines 124-169
add_bond(m, start_id, end_id, order) ==
  LET max_id == saturating_sub(Len(m.atoms), 1)
      failed(type, a, b) == [molecule |-> m, ret |-> Returned("add_bond", type, a, b)]
  IN IF start_id = end_id THEN failed("SelfLoopBond", start_id, 0)
     ELSE IF start_id >= Len(m.atoms) THEN failed("AtomNotFound", start_id, max_id)
     ELSE IF end_id >= Len(m.atoms) THEN failed("AtomNotFound", end_id, max_id)
     ELSE
       LET check_atom == IF Len(m.adjacency[start_id + 1]) < Len(m.adjacency[end_id + 1])
                           THEN start_id ELSE end_id
           scanned == m.adjacency[check_atom + 1]
           id == Len(m.bonds)
       IN IF \E i \in DOMAIN scanned : connects(m.bonds[scanned[i] + 1], start_id, end_id)
            THEN failed("DuplicateBond", start_id, end_id)
          ELSE [molecule |->
                  [m EXCEPT !.bonds = Append(@, BondView(id, order, start_id, end_id)),
                            !.adjacency = [i \in DOMAIN @ |->
                               IF i \in {start_id + 1, end_id + 1} THEN Append(@[i], id)
                               ELSE @[i]]],
                ret |-> Returned("add_bond", "Ok", id, 0)]

\* impl MoleculeGraph for Molecule, lines 211-222
MoleculeGraph(m) == Graph(m.atoms, m.bonds)

(***************************************************************************)
(* perception/mod.rs: PerceivedAtom, PerceivedBond, graph build            *)
(***************************************************************************)
PerceivedAtom_new(id, element, formal_charge, total_degree) ==
  [id |-> id, element |-> element, formal_charge |-> formal_charge,
   total_degree |-> total_degree, total_valence |-> 0, is_in_ring |-> FALSE,
   is_aromatic |-> FALSE, hybridization |-> "Unknown",
   is_conjugation_candidate |-> FALSE, lone_pairs |-> 0,
   conjugation_roles |-> {}]

PerceivedBond_new(id, order, start_atom_id, end_atom_id) ==
  [id |-> id, order |-> order, start_atom_id |-> start_atom_id,
   end_atom_id |-> end_atom_id, is_in_ring |-> FALSE, is_aromatic |-> FALSE,
   kekule_order |-> "None"]

other_end(bond, atom_id) ==
  IF bond.start_atom_id = atom_id THEN bond.end_atom_id ELSE bond.start_atom_id

\* HashMap::insert
MapInsert(m, k, v) ==
  [x \in (DOMAIN m) \cup {k} |-> IF x = k THEN v ELSE m[x]]

EmptyMap == [x \in {} |-> 0]

NoError == [type |-> "None"]

DuplicateBond(s, e) == [type |-> "DuplicateBond", start |-> s, end |-> e]

InconsistentGraph(id) == [type |-> "InconsistentGraph", id |-> id]

KekulizationFailed(n) == [type |-> "KekulizationFailed", attempts |-> n]

\* the first loop of from_graph: atom id -> index, in iteration order
RECURSIVE index_atoms(_, _, _)
index_atoms(source_atoms, i, m) ==
  IF i > Len(source_atoms) THEN m
  ELSE index_atoms(source_atoms, i + 1, MapInsert(m, source_atoms[i].id, i))

\* the key under which a bond is recorded in seen_bonds, as the raw pair
raw_pair(start_id, end_id) == <<start_id, end_id>>

\* the key under which a bond is recorded in seen_bonds
canonical_pair(start_id, end_id) ==
  <<Min2(start_id, end_id), Max2(start_id, end_id)>>

\* a lookup that tries the end atom before the start atom
lookup_endpoints_end_first(a2i, start_id, end_id) ==
  IF end_id \notin DOMAIN a2i THEN InconsistentGraph(end_id)
  ELSE IF start_id \notin DOMAIN a2i THEN InconsistentGraph(start_id)
  ELSE NoError

\* the two atom_id_to_index lookups of a bond, each with its `?`
lookup_endpoints(a2i, start_id, end_id) ==
  IF start_id \notin DOMAIN a2i THEN InconsistentGraph(start_id)
  ELSE IF end_id \notin DOMAIN a2i THEN InconsistentGraph(end_id)
  ELSE NoError

\* the bond loop of from_graph, from the k-th bond on
RECURSIVE from_graph_bonds(_, _, _, _)
from_graph_bonds(g, a2i, k, st) ==
  IF k > Len(g.bonds) THEN st
  ELSE
    LET bv == g.bonds[k]
        start_id == bv.start_atom_id
        end_id == bv.end_atom_id
        key == canonical_pair(start_id, end_id)
        found == lookup_endpoints(a2i, start_id, end_id)
    IN IF key \in st.seen_bonds
         THEN [st EXCEPT !.err = DuplicateBond(start_id, end_id)]
       ELSE IF found # NoError THEN [st EXCEPT !.err = found]
       ELSE
         LET start_idx == a2i[start_id]
             end_idx == a2i[end_id]
             adj1 == [st.adjacency EXCEPT ![start_idx] = Append(@, <<end_idx, bv.id>>)]
             adj2 == [adj1 EXCEPT ![end_idx] = Append(@, <<start_idx, bv.id>>)]
         IN from_graph_bonds(g, a2i, k + 1,
              [err |-> NoError,
               seen_bonds |-> st.seen_bonds \cup {key},
               adjacency |-> adj2,
               bond_id_to_index |-> MapInsert(st.bond_id_to_index, bv.id, Len(st.bonds) + 1),
               bonds |-> Append(st.bonds,
                           PerceivedBond_new(bv.id, bv.order, start_id, end_id))])

\* from_graph up to the construction of the ChemicalPerception value
build_perception(g) ==
  LET a2i == index_atoms(g.atoms, 1, EmptyMap)
      num_atoms == Len(g.atoms)
      st == from_graph_bonds(g, a2i, 1,
              [err |-> NoError, seen_bonds |-> {},
               adjacency |-> [i \in 1..num_atoms |-> <<>>],
               bond_id_to_index |-> EmptyMap, bonds |-> <<>>])
  IN [err |-> st.err,
      atoms |-> [i \in 1..num_atoms |->
                   PerceivedAtom_new(g.atoms[i].id, g.atoms[i].element,
                                     g.atoms[i].formal_charge,
                                     Len(st.adjacency[a2i[g.atoms[i].id]]))],
      bonds |-> st.bonds,
      adjacency |-> st.adjacency,
      atom_id_to_index |-> a2i,
      bond_id_to_index |-> st.bond_id_to_index,
      ring_info |-> <<>>]

(***************************************************************************)
(* perception/ring.rs                                                      *)
(***************************************************************************)
Ring_new(atom_ids, bond_ids) ==
  [atom_ids |-> SortedSeqOf(Range(atom_ids)),
   bond_ids |-> SortedSeqOf(Range(bond_ids))]

\* count_components: the inner stack loop
RECURSIVE components_dfs(_, _, _)
components_dfs(p, stack, visited) ==
  IF stack = <<>> THEN visited
  ELSE
    LET current == stack[Len(stack)]
        rest == SubSeq(stack, 1, Len(stack) - 1)
        adj == p.adjacency[current]
        fresh == SelectSeq([i \in 1..Len(adj) |-> adj[i][1]],
                           LAMBDA n : n \notin visited)
        \* a neighbour listed twice is pushed once
        push == [i \in 1..Len(fresh) |->
                   IF \E j \in 1..(i - 1) : fresh[j] = fresh[i] THEN 0 ELSE fresh[i]]
    IN components_dfs(p, rest \o SelectSeq(push, LAMBDA n : n # 0),
                      visited \cup Range(fresh))

RECURSIVE count_components_from(_, _, _, _)
count_components_from(p, i, visited, components) ==
  IF i > Len(p.atoms) THEN components
  ELSE IF i \in visited THEN count_components_from(p, i + 1, visited, components)
  ELSE count_components_from(p, i + 1, components_dfs(p, <<i>>, visited \cup {i}),
                             components + 1)

count_components(p) == count_components_from(p, 1, {}, 0)

cyclomatic_number(p) == Len(p.bonds) - Len(p.atoms) + count_components(p)

NoParent == <<>>

\* shortest_path_excluding_bond: the for loop over adjacency[current]
RECURSIVE bfs_scan(_, _, _, _, _)
bfs_scan(adj, i, current_idx, forbidden_bond_id, st) ==
  IF i > Len(adj) THEN st
  ELSE
    LET neighbor_idx == adj[i][1]
        bond_id == adj[i][2]
    IN IF bond_id = forbidden_bond_id \/ neighbor_idx \in st.visited
         THEN bfs_scan(adj, i + 1, current_idx, forbidden_bond_id, st)
       ELSE bfs_scan(adj, i + 1, current_idx, forbidden_bond_id,
              [queue |-> Append(st.queue, neighbor_idx),
               visited |-> st.visited \cup {neighbor_idx},
               parent |-> [st.parent EXCEPT ![neighbor_idx] = <<current_idx, bond_id>>]])

\* shortest_path_excluding_bond: the while loop over the queue
RECURSIVE bfs_loop(_, _, _, _)
bfs_loop(p, end_idx, forbidden_bond_id, st) ==
  IF st.queue = <<>> THEN st
  ELSE
    LET current_idx == Head(st.queue)
        st1 == [st EXCEPT !.queue = Tail(@)]
    IN IF current_idx = end_idx THEN st1
       ELSE bfs_loop(p, end_idx, forbidden_bond_id,
              bfs_scan(p.adjacency[current_idx], 1, current_idx, forbidden_bond_id, st1))

\* shortest_path_excluding_bond: following the parent pointers back from
\* the end atom (push, then reverse)
RECURSIVE trace_path(_, _, _, _)
trace_path(p, parent, cursor, path) ==
  IF parent[cursor] = NoParent
    THEN [found |-> TRUE,
          atom_ids |-> <<p.atoms[cursor].id>> \o path.atom_ids,
          bond_ids |-> path.bond_ids]
  ELSE trace_path(p, parent, parent[cursor][1],
         [atom_ids |-> <<p.atoms[cursor].id>> \o path.atom_ids,
          bond_ids |-> <<parent[cursor][2]>> \o path.bond_ids])

NoPath == [found |-> FALSE, atom_ids |-> <<>>, bond_ids |-> <<>>]

shortest_path_excluding_bond(p, start_atom_id, end_atom_id, forbidden_bond_id) ==
  IF start_atom_id \notin DOMAIN p.atom_id_to_index
     \/ end_atom_id \notin DOMAIN p.atom_id_to_index
    THEN NoPath
  ELSE
    LET start_idx == p.atom_id_to_index[start_atom_id]
        end_idx == p.atom_id_to_index[end_atom_id]
        st == bfs_loop(p, end_idx, forbidden_bond_id,
                [queue |-> <<start_idx>>, visited |-> {start_idx},
                 parent |-> [i \in 1..Len(p.atoms) |-> NoParent]])
    IN IF end_idx \notin st.visited THEN NoPath
       ELSE trace_path(p, st.parent, end_idx, [atom_ids |-> <<>>, bond_ids |-> <<>>])

RECURSIVE enumerate_from(_, _, _, _)
enumerate_from(p, k, candidates, seen_signatures) ==
  IF k > Len(p.bonds) THEN candidates
  ELSE
    LET bond == p.bonds[k]
        path == shortest_path_excluding_bond(p, bond.start_atom_id,
                                             bond.end_atom_id, bond.id)
        all_bond_ids == SortedSeqOf(Range(path.bond_ids) \cup {bond.id})
    IN IF ~path.found \/ all_bond_ids \in seen_signatures
         THEN enumerate_from(p, k + 1, candidates, seen_signatures)
       ELSE enumerate_from(p, k + 1,
              Append(candidates, Ring_new(path.atom_ids, all_bond_ids)),
              seen_signatures \cup {all_bond_ids})

enumerate_cycle_candidates(p) == enumerate_from(p, 1, <<>>, {})

\* candidates.sort_by_key(|r| r.bond_ids.len()): a stable sort, written as
\* a stable insertion sort
RECURSIVE insert_by_len(_, _)
insert_by_len(sorted, r) ==
  IF sorted = <<>> THEN <<r>>
  ELSE IF Len(Head(sorted).bond_ids) <= Len(r.bond_ids)
    THEN <<Head(sorted)>> \o insert_by_len(Tail(sorted), r)
  ELSE <<r>> \o sorted

RECURSIVE sort_by_len(_, _, _)
sort_by_len(s, i, acc) ==
  IF i > Len(s) THEN acc ELSE sort_by_len(s, i + 1, insert_by_len(acc, s[i]))

\* BitVec: the set of the bit positions that are set (positions are bond
\* indices)
BitVec_from_bond_ids(bond_ids, b2i) ==
  {b2i[b] : b \in Range(bond_ids) \cap DOMAIN b2i}

BitVec_xor(a, b) == (a \ b) \cup (b \ a)

BitVec_is_zero(a) == a = {}

BitVec_test(a, idx) == idx \in a

BitVec_leading_one(a) == MaxOf(a)

\* for (basis_vec, pivot) in &basis { if bitvec.test(*pivot) { bitvec.xor(basis_vec) } }
RECURSIVE reduce_against_basis(_, _, _)
reduce_against_basis(bitvec, basis, i) ==
  IF i > Len(basis) THEN bitvec
  ELSE reduce_against_basis(
         IF BitVec_test(bitvec, basis[i][2]) THEN BitVec_xor(bitvec, basis[i][1])
         ELSE bitvec,
         basis, i + 1)

\* basis.push((bitvec, pivot)); basis.sort_by_key(|&(_, p)| p): the basis is
\* sorted before the push, and the sort is stable
RECURSIVE basis_insert(_, _)
basis_insert(basis, entry) ==
  IF basis = <<>> THEN <<entry>>
  ELSE IF Head(basis)[2] <= entry[2]
    THEN <<Head(basis)>> \o basis_insert(Tail(basis), entry)
  ELSE <<entry>> \o basis

\* the loop of select_minimal_cycle_basis over the sorted candidates
RECURSIVE select_from(_, _, _, _, _, _)
select_from(p, candidates, i, cyclomatic, selected_rings, basis) ==
  IF i > Len(candidates) THEN selected_rings
  ELSE
    LET ring == candidates[i]
        bitvec == reduce_against_basis(
                    BitVec_from_bond_ids(ring.bond_ids, p.bond_id_to_index), basis, 1)
    IN IF BitVec_is_zero(bitvec)
         THEN select_from(p, candidates, i + 1, cyclomatic, selected_rings, basis)
       ELSE IF Len(selected_rings) + 1 = cyclomatic
         THEN Append(selected_rings, ring)
       ELSE select_from(p, candidates, i + 1, cyclomatic,
              Append(selected_rings, ring),
              basis_insert(basis, <<bitvec, BitVec_leading_one(bitvec)>>))

select_minimal_cycle_basis(p, candidates, cyclomatic) ==
  select_from(p, sort_by_len(candidates, 1, <<>>), 1, cyclomatic, <<>>, <<>>)

find_sssr(p) ==
  IF cyclomatic_number(p) <= 0 THEN <<>>
  ELSE select_minimal_cycle_basis(p, enumerate_cycle_candidates(p),
                                  cyclomatic_number(p))

\* from_graph, lines 280-294: run find_sssr, flag ring atoms and bonds
mark_rings(p) ==
  LET rings == find_sssr(p)
      ring_atom_ids == UNION {Range(rings[r].atom_ids) : r \in DOMAIN rings}
      ring_bond_ids == UNION {Range(rings[r].bond_ids) : r \in DOMAIN rings}
  IN [p EXCEPT
        !.atoms = [i \in DOMAIN p.atoms |->
                     IF p.atoms[i].id \in ring_atom_ids
                        /\ p.atom_id_to_index[p.atoms[i].id] = i
                       THEN [p.atoms[i] EXCEPT !.is_in_ring = TRUE]
                     ELSE p.atoms[i]],
        !.bonds = [k \in DOMAIN p.bonds |->
                     IF p.bonds[k].id \in ring_bond_ids
                        /\ p.bond_id_to_index[p.bonds[k].id] = k
                       THEN [p.bonds[k] EXCEPT !.is_in_ring = TRUE]
                     ELSE p.bonds[k]],
        !.ring_info = rings]

(***************************************************************************)
(* perception/aromaticity.rs                                               *)
(***************************************************************************)
\* Phase 1: bonds whose input order is Aromatic, and their endpoints
apply_explicit_aromaticity_bonds_only(p) ==
  [p EXCEPT
     !.bonds = [k \in DOMAIN p.bonds |->
                  IF p.bonds[k].order = "Aromatic"
                    THEN [p.bonds[k] EXCEPT !.is_aromatic = TRUE]
                  ELSE p.bonds[k]]]

apply_explicit_aromaticity(p) ==
  LET explicit == {k \in DOMAIN p.bonds : p.bonds[k].order = "Aromatic"}
      touched == {p.atom_id_to_index[id] :
                    id \in {x \in UNION {{p.bonds[k].start_atom_id, p.bonds[k].end_atom_id} :
                                           k \in explicit} :
                              x \in DOMAIN p.atom_id_to_index}}
  IN [p EXCEPT
        !.bonds = [k \in DOMAIN p.bonds |->
                     IF k \in explicit THEN [p.bonds[k] EXCEPT !.is_aromatic = TRUE]
                     ELSE p.bonds[k]],
        !.atoms = [i \in DOMAIN p.atoms |->
                     IF i \in touched THEN [p.atoms[i] EXCEPT !.is_aromatic = TRUE]
                     ELSE p.atoms[i]]]

\* rings r1 and r2 are adjacent in the ring graph: some bond id is in both
rings_share_bond(p, r1, r2) ==
  r1 # r2 /\ Range(p.ring_info[r1].bond_ids) \cap Range(p.ring_info[r2].bond_ids) # {}

\* the connected component of the ring graph around the rings of S
RECURSIVE ring_component(_, _)
ring_component(p, S) ==
  LET next == S \cup {r \in DOMAIN p.ring_info : \E q \in S : rings_share_bond(p, q, r)}
  IN IF next = S THEN S ELSE ring_component(p, next)

\* components in the order of their lowest ring index (for i in 0..num_rings)
RECURSIVE fused_from(_, _, _, _)
fused_from(p, i, visited, components) ==
  IF i > Len(p.ring_info) THEN components
  ELSE IF i \in visited THEN fused_from(p, i + 1, visited, components)
  ELSE LET c == ring_component(p, {i})
       IN fused_from(p, i + 1, visited \cup c, Append(components, c))

find_fused_ring_systems(p) == fused_from(p, 1, {}, <<>>)

system_atom_indices(p, system) ==
  {p.atom_id_to_index[id] : id \in UNION {Range(p.ring_info[r].atom_ids) : r \in system}}

system_bond_indices(p, system) ==
  {p.bond_id_to_index[id] : id \in UNION {Range(p.ring_info[r].bond_ids) : r \in system}}

is_potential_sp2_hybrid_any_degree(p, atom_idx) ==
  is_common_conjugation_element(p.atoms[atom_idx].element)

is_potential_sp2_hybrid(p, atom_idx) ==
  p.atoms[atom_idx].total_degree <= 3
  /\ is_common_conjugation_element(p.atoms[atom_idx].element)

\* the count where a multiple bond marks its start atom only
pi_electrons_for_atom_at_start(p, atom_idx, bond_indices) ==
  LET atom == p.atoms[atom_idx]
      adj == p.adjacency[atom_idx]
      is_in_multiple_bond_in_system ==
        \E i \in DOMAIN adj :
          /\ adj[i][2] \in DOMAIN p.bond_id_to_index
          /\ p.bond_id_to_index[adj[i][2]] \in bond_indices
          /\ p.bonds[p.bond_id_to_index[adj[i][2]]].order \in {"Double", "Triple"}
          /\ p.bonds[p.bond_id_to_index[adj[i][2]]].start_atom_id = atom.id
  IN IF is_in_multiple_bond_in_system THEN 1
     ELSE IF atom.element = "N" /\ atom.total_degree = 3
       THEN (IF atom.formal_charge = 1 THEN 0 ELSE 2)
     ELSE IF atom.element \in {"O", "S"} /\ atom.total_degree = 2 THEN 2
     ELSE IF atom.element = "C" /\ atom.total_degree = 3
       THEN (IF atom.formal_charge = -1 THEN 2 ELSE 0)
     ELSE 0

pi_electrons_for_atom(p, atom_idx, bond_indices) ==
  LET atom == p.atoms[atom_idx]
      adj == p.adjacency[atom_idx]
      is_in_multiple_bond_in_system ==
        \E i \in DOMAIN adj :
          /\ adj[i][2] \in DOMAIN p.bond_id_to_index
          /\ p.bond_id_to_index[adj[i][2]] \in bond_indices
          /\ p.bonds[p.bond_id_to_index[adj[i][2]]].order \in {"Double", "Triple"}
  IN IF is_in_multiple_bond_in_system THEN 1
     ELSE IF atom.element = "N" /\ atom.total_degree = 3
       THEN (IF atom.formal_charge = 1 THEN 0 ELSE 2)
     ELSE IF atom.element \in {"O", "S"} /\ atom.total_degree = 2 THEN 2
     ELSE IF atom.element = "C" /\ atom.total_degree = 3
       THEN (IF atom.formal_charge = -1 THEN 2 ELSE 0)
     ELSE 0

RECURSIVE sum_pi_electrons(_, _, _)
sum_pi_electrons(p, atom_indices, bond_indices) ==
  IF atom_indices = {} THEN 0
  ELSE LET a == MinOf(atom_indices)
       IN pi_electrons_for_atom(p, a, bond_indices)
          + sum_pi_electrons(p, atom_indices \ {a}, bond_indices)

pi_electron_count(p, system) ==
  sum_pi_electrons(p, system_atom_indices(p, system), system_bond_indices(p, system))

system_is_eligible(p, system) ==
  \A a \in system_atom_indices(p, system) : is_potential_sp2_hybrid(p, a)

\* pi_electron_count is a u32: `pi_electron_count - 2` is evaluated when the
\* count is positive and overflows when it is 1
huckel_subtraction_overflows(p, system) ==
  system_is_eligible(p, system) /\ pi_electron_count(p, system) = 1

\* the value of the test where overflow wraps (a build without overflow
\* checks): wrapping is modulo 2^32, which keeps the residue modulo 4, and
\* % below is the non-negative residue
is_system_aromatic(p, system) ==
  /\ system_is_eligible(p, system)
  /\ pi_electron_count(p, system) > 0
  /\ (pi_electron_count(p, system) - 2) % 4 = 0

mark_system_aromatic(p, system) ==
  [p EXCEPT
     !.atoms = [i \in DOMAIN p.atoms |->
                  IF i \in system_atom_indices(p, system)
                    THEN [p.atoms[i] EXCEPT !.is_aromatic = TRUE]
                  ELSE p.atoms[i]],
     !.bonds = [k \in DOMAIN p.bonds |->
                  IF k \in system_bond_indices(p, system)
                    THEN [p.bonds[k] EXCEPT !.is_aromatic = TRUE]
                  ELSE p.bonds[k]]]

RECURSIVE apply_systems(_, _, _)
apply_systems(p, systems, i) ==
  IF i > Len(systems) THEN p
  ELSE apply_systems(
         IF is_system_aromatic(p, systems[i]) THEN mark_system_aromatic(p, systems[i])
         ELSE p,
         systems, i + 1)

\* Phase 2
apply_topological_aromaticity(p) ==
  IF p.ring_info = <<>> THEN p
  ELSE apply_systems(p, find_fused_ring_systems(p), 1)

aromaticity_perceive(p) == apply_topological_aromaticity(apply_explicit_aromaticity(p))

\* some Hueckel test of the topological pass overflows
aromaticity_overflows(p) ==
  \E i \in DOMAIN find_fused_ring_systems(p) :
    huckel_subtraction_overflows(p, find_fused_ring_systems(p)[i])

(***************************************************************************)
(* perception/kekulize.rs                                                  *)
(***************************************************************************)
KEKULIZATION_ATTEMPT_LIMIT == 1000

\* the walk of the adjacency lists, made at conjugation candidates only
incident_bond_ids_at_candidates(p, bond) ==
  LET ids == SelectSeq(<<bond.start_atom_id, bond.end_atom_id>>,
                       LAMBDA id : /\ id \in DOMAIN p.atom_id_to_index
                                   /\ p.atoms[p.atom_id_to_index[id]].is_conjugation_candidate)
      list(id) == [i \in DOMAIN p.adjacency[p.atom_id_to_index[id]] |->
                     p.adjacency[p.atom_id_to_index[id]][i][2]]
  IN IF Len(ids) = 0 THEN <<>>
     ELSE IF Len(ids) = 1 THEN list(ids[1])
     ELSE list(ids[1]) \o list(ids[2])

\* the bond ids met when the adjacency lists of the two endpoints of a bond
\* are walked, start atom first
incident_bond_ids(p, bond) ==
  LET ids == SelectSeq(<<bond.start_atom_id, bond.end_atom_id>>,
                       LAMBDA id : id \in DOMAIN p.atom_id_to_index)
      list(id) == [i \in DOMAIN p.adjacency[p.atom_id_to_index[id]] |->
                     p.adjacency[p.atom_id_to_index[id]][i][2]]
  IN IF Len(ids) = 0 THEN <<>>
     ELSE IF Len(ids) = 1 THEN list(ids[1])
     ELSE list(ids[1]) \o list(ids[2])

RECURSIVE component_scan(_, _, _, _)
component_scan(p, ids, i, st) ==
  IF i > Len(ids) THEN st
  ELSE IF ids[i] \notin DOMAIN p.bond_id_to_index
    THEN component_scan(p, ids, i + 1, st)
  ELSE
    LET n == p.bond_id_to_index[ids[i]]
    IN IF ~p.bonds[n].is_aromatic \/ n \in st.visited
         THEN component_scan(p, ids, i + 1, st)
       ELSE component_scan(p, ids, i + 1,
              [st EXCEPT !.visited = @ \cup {n}, !.queue = Append(@, n)])

RECURSIVE component_loop(_, _)
component_loop(p, st) ==
  IF st.queue = <<>> THEN st
  ELSE
    LET bond_idx == Head(st.queue)
        st1 == [st EXCEPT !.queue = Tail(@),
                          !.component = Append(@, bond_idx)]
    IN component_loop(p,
         component_scan(p, incident_bond_ids(p, p.bonds[bond_idx]), 1, st1))

\* returns the component (bond indices in BFS order) and the updated
\* visited_bonds
collect_aromatic_component(p, start_bond_idx, visited_bonds) ==
  LET st == component_loop(p, [queue |-> <<start_bond_idx>>,
                               visited |-> visited_bonds \cup {start_bond_idx},
                               component |-> <<>>])
  IN [component |-> st.component, visited |-> st.visited]

count_of_zero(atom_counts, id) == 0

count_of(atom_counts, id) ==
  IF id \in DOMAIN atom_counts THEN atom_counts[id] ELSE 0

\* st: [bonds, atom_counts, attempts]; returns st with a field ok
RECURSIVE kekule_backtrack(_, _, _)
kekule_backtrack(position, unassigned_bonds, st) ==
  IF position > Len(unassigned_bonds) THEN [st EXCEPT !.ok = TRUE]
  ELSE IF st.attempts >= KEKULIZATION_ATTEMPT_LIMIT THEN [st EXCEPT !.ok = FALSE]
  ELSE
    LET bond_idx == unassigned_bonds[position]
        start_id == st.bonds[bond_idx].start_atom_id
        end_id == st.bonds[bond_idx].end_atom_id
        st0 == [st EXCEPT !.attempts = @ + 1]
        can_assign_double ==
          count_of(st.atom_counts, start_id) = 0 /\ count_of(st.atom_counts, end_id) = 0
        inc1 == MapInsert(st0.atom_counts, start_id, count_of(st0.atom_counts, start_id) + 1)
        inc2 == MapInsert(inc1, end_id, count_of(inc1, end_id) + 1)
        tried_double ==
          kekule_backtrack(position + 1, unassigned_bonds,
            [st0 EXCEPT !.bonds[bond_idx].kekule_order = "Double",
                        !.atom_counts = inc2])
        dec1 == [tried_double.atom_counts EXCEPT ![start_id] = @ - 1]
        dec2 == [dec1 EXCEPT ![end_id] = @ - 1]
        \* the state in which Single is tried
        st1 == IF can_assign_double
                 THEN [tried_double EXCEPT !.atom_counts = dec2]
               ELSE st0
        tried_single ==
          kekule_backtrack(position + 1, unassigned_bonds,
            [st1 EXCEPT !.bonds[bond_idx].kekule_order = "Single"])
    IN IF can_assign_double /\ tried_double.ok THEN tried_double
       ELSE IF tried_single.ok THEN tried_single
       ELSE [tried_single EXCEPT !.bonds[bond_idx].kekule_order = "None", !.ok = FALSE]

\* assign_kekule_orders counting its own call as an attempt
assign_kekule_orders_counting_call(bs, component_bond_indices, attempts) ==
  LET unassigned_bond_indices ==
        SelectSeq(component_bond_indices, LAMBDA idx : bs[idx].kekule_order = "None")
      r == kekule_backtrack(1, unassigned_bond_indices,
             [ok |-> FALSE, bonds |-> bs, atom_counts |-> EmptyMap, attempts |-> attempts + 1])
  IN IF unassigned_bond_indices = <<>>
       THEN [ok |-> TRUE, bonds |-> bs, attempts |-> attempts]
     ELSE IF ~r.ok THEN [ok |-> FALSE, bonds |-> r.bonds, attempts |-> r.attempts]
     ELSE [ok |-> TRUE,
           bonds |-> [k \in DOMAIN r.bonds |->
                        IF k \in Range(component_bond_indices)
                           /\ r.bonds[k].kekule_order = "None"
                          THEN [r.bonds[k] EXCEPT !.kekule_order = "Single"]
                        ELSE r.bonds[k]],
           attempts |-> r.attempts]

\* returns [ok, bonds, attempts]
\* the assignment without the filter on bonds that already have an order
assign_kekule_orders_unfiltered(bs, component_bond_indices, attempts) ==
  LET unassigned_bond_indices == component_bond_indices
      r == kekule_backtrack(1, unassigned_bond_indices,
             [ok |-> FALSE, bonds |-> bs, atom_counts |-> EmptyMap, attempts |-> attempts])
  IN IF unassigned_bond_indices = <<>>
       THEN [ok |-> TRUE, bonds |-> bs, attempts |-> attempts]
     ELSE IF ~r.ok THEN [ok |-> FALSE, bonds |-> r.bonds, attempts |-> r.attempts]
     ELSE [ok |-> TRUE,
           bonds |-> [k \in DOMAIN r.bonds |->
                        IF k \in Range(component_bond_indices)
                           /\ r.bonds[k].kekule_order = "None"
                          THEN [r.bonds[k] EXCEPT !.kekule_order = "Single"]
                        ELSE r.bonds[k]],
           attempts |-> r.attempts]

assign_kekule_orders(bs, component_bond_indices, attempts) ==
  LET unassigned_bond_indices ==
        SelectSeq(component_bond_indices, LAMBDA idx : bs[idx].kekule_order = "None")
      r == kekule_backtrack(1, unassigned_bond_indices,
             [ok |-> FALSE, bonds |-> bs, atom_counts |-> EmptyMap, attempts |-> attempts])
  IN IF unassigned_bond_indices = <<>>
       THEN [ok |-> TRUE, bonds |-> bs, attempts |-> attempts]
     ELSE IF ~r.ok THEN [ok |-> FALSE, bonds |-> r.bonds, attempts |-> r.attempts]
     ELSE [ok |-> TRUE,
           bonds |-> [k \in DOMAIN r.bonds |->
                        IF k \in Range(component_bond_indices)
                           /\ r.bonds[k].kekule_order = "None"
                          THEN [r.bonds[k] EXCEPT !.kekule_order = "Single"]
                        ELSE r.bonds[k]],
           attempts |-> r.attempts]

\* one pass of the body of kekulize's loop; st: [ok, bonds, attempts, visited]
kekulize_iteration_fresh_budget(p, idx, st) ==
  IF ~st.bonds[idx].is_aromatic \/ idx \in st.visited THEN st
  ELSE
    LET c == collect_aromatic_component(p, idx, st.visited)
        r == assign_kekule_orders(st.bonds, c.component, 0)
    IN [ok |-> r.ok, bonds |-> r.bonds, attempts |-> r.attempts, visited |-> c.visited]

kekulize_iteration(p, idx, st) ==
  IF ~st.bonds[idx].is_aromatic \/ idx \in st.visited THEN st
  ELSE
    LET c == collect_aromatic_component(p, idx, st.visited)
        r == assign_kekule_orders(st.bonds, c.component, st.attempts)
    IN [ok |-> r.ok, bonds |-> r.bonds, attempts |-> r.attempts, visited |-> c.visited]

\* the loop of kekulize over the bond indices, left at the first error
RECURSIVE kekulize_from(_, _, _)
kekulize_from(p, idx, st) ==
  IF idx > Len(st.bonds) THEN st
  ELSE
    LET st1 == kekulize_iteration(p, idx, st)
    IN IF st1.ok THEN kekulize_from(p, idx + 1, st1) ELSE st1

kekulize(p) ==
  kekulize_from(p, 1, [ok |-> TRUE, bonds |-> p.bonds, attempts |-> 0, visited |-> {}])

(***************************************************************************)
(* perception/state.rs                                                     *)
(***************************************************************************)
wrapping_add(a, b) == (a + b) % 256

\* u8::saturating_add
saturating_add(a, b) == Min2(a + b, 255)

effective_order(bond) ==
  IF bond.kekule_order # "None" THEN bond.kekule_order ELSE bond.order

add_valence(as, a2i, atom_id, m) ==
  IF atom_id \in DOMAIN a2i
    THEN [as EXCEPT ![a2i[atom_id]].total_valence = saturating_add(@, m)]
  ELSE as

\* compute_valence, lines 26-28
valence_reset(as) == [i \in DOMAIN as |-> [as[i] EXCEPT !.total_valence = 0]]

\* compute_valence, lines 30-44: the loop body for the bond at index k
valence_iteration(p, k, as) ==
  LET m == multiplicity(effective_order(p.bonds[k]))
      as1 == add_valence(as, p.atom_id_to_index, p.bonds[k].start_atom_id, m)
  IN add_valence(as1, p.atom_id_to_index, p.bonds[k].end_atom_id, m)

RECURSIVE valence_from(_, _, _)
valence_from(p, k, as) ==
  IF k > Len(p.bonds) THEN as
  ELSE valence_from(p, k + 1, valence_iteration(p, k, as))

compute_valence(p) == [p EXCEPT !.atoms = valence_from(p, 1, valence_reset(p.atoms))]

estimate_lone_pairs_none(atom) == 0

estimate_lone_pairs(atom) ==
  IF valence_electrons(atom.element) < 0 THEN 0
  ELSE Max2(valence_electrons(atom.element) - atom.formal_charge - atom.total_valence, 0) \div 2

steric_hybridization(steric_number) ==
  CASE steric_number = 2 -> "SP"
    [] steric_number = 3 -> "SP2"
    [] steric_number = 4 -> "SP3"
    [] OTHER -> "Unknown"

\* the correction loop reading the hybridizations as they are being written
RECURSIVE correct_in_place_from(_, _)
correct_in_place_from(p, i) ==
  IF i > Len(p.atoms) THEN p
  ELSE correct_in_place_from(
         IF /\ p.atoms[i].hybridization = "SP3" /\ p.atoms[i].lone_pairs > 0
            /\ \E n \in DOMAIN p.adjacency[i] :
                 p.atoms[p.adjacency[i][n][1]].hybridization \in {"SP", "SP2"}
           THEN [p EXCEPT !.atoms[i].hybridization = "SP2"]
         ELSE p,
         i + 1)

perceive_hybridization_in_place(p) ==
  correct_in_place_from(
    [p EXCEPT !.atoms = [i \in DOMAIN p.atoms |->
       [p.atoms[i] EXCEPT
          !.lone_pairs = estimate_lone_pairs(p.atoms[i]),
          !.hybridization =
             IF p.atoms[i].is_aromatic THEN "SP2"
             ELSE steric_hybridization(
                    saturating_add(p.atoms[i].total_degree,
                                   estimate_lone_pairs(p.atoms[i])))]]],
    1)

perceive_hybridization(p) ==
  LET first == [i \in DOMAIN p.atoms |->
                  [p.atoms[i] EXCEPT
                     !.lone_pairs = estimate_lone_pairs(p.atoms[i]),
                     !.hybridization =
                        IF p.atoms[i].is_aromatic THEN "SP2"
                        ELSE steric_hybridization(
                               saturating_add(p.atoms[i].total_degree,
                                              estimate_lone_pairs(p.atoms[i])))]]
      snapshot == [i \in DOMAIN first |-> first[i].hybridization]
      has_sp2_or_sp_neighbor(idx) ==
        \E n \in DOMAIN p.adjacency[idx] :
          snapshot[p.adjacency[idx][n][1]] \in {"SP", "SP2"}
  IN [p EXCEPT !.atoms =
        [i \in DOMAIN first |->
           IF first[i].hybridization = "SP3" /\ first[i].lone_pairs > 0
              /\ has_sp2_or_sp_neighbor(i)
             THEN [first[i] EXCEPT !.hybridization = "SP2"]
           ELSE first[i]]]

state_perceive(p) == perceive_hybridization(compute_valence(p))

(***************************************************************************)
(* resonance/candidate.rs                                                  *)
(***************************************************************************)
reset_conjugation_state_and_hybridization(p) ==
  [p EXCEPT !.atoms = [i \in DOMAIN p.atoms |->
     [p.atoms[i] EXCEPT !.is_conjugation_candidate = FALSE, !.conjugation_roles = {},
                        !.hybridization = "Unknown"]]]

reset_conjugation_state(p) ==
  [p EXCEPT !.atoms = [i \in DOMAIN p.atoms |->
     [p.atoms[i] EXCEPT !.is_conjugation_candidate = FALSE, !.conjugation_roles = {}]]]

is_hypervalent_bridge(p, atom_idx) ==
  LET atom == p.atoms[atom_idx]
      adj == p.adjacency[atom_idx]
      order_at(i) == effective_order(p.bonds[p.bond_id_to_index[adj[i][2]]])
      neighbor(i) == p.atoms[adj[i][1]]
      has_pi_partner ==
        \E i \in DOMAIN adj :
          /\ order_at(i) \in {"Double", "Triple"}
          /\ is_common_conjugation_element(neighbor(i).element)
      has_sigma_partner ==
        \E i \in DOMAIN adj :
          /\ order_at(i) \notin {"Double", "Triple"}
          /\ \/ neighbor(i).lone_pairs > 0
             \/ neighbor(i).formal_charge < 0
             \/ is_common_conjugation_element(neighbor(i).element)
  IN /\ atom.element \in {"P", "S", "Cl", "Br", "I"}
     /\ atom.total_valence > 4
     /\ has_pi_partner
     /\ has_sigma_partner

RECURSIVE mark_hypervalent_bridges_from(_, _)
mark_hypervalent_bridges_from(p, i) ==
  IF i > Len(p.atoms) THEN p
  ELSE mark_hypervalent_bridges_from(
         IF is_hypervalent_bridge(p, i)
           THEN [p EXCEPT !.atoms[i].conjugation_roles = @ \cup {"HYPERVALENT_BRIDGE"}]
         ELSE p,
         i + 1)

mark_hypervalent_bridges(p) == mark_hypervalent_bridges_from(p, 1)

should_skip_never(p, atom_idx) == FALSE

should_skip_intrinsic_pi(p, atom_idx) ==
  LET atom == p.atoms[atom_idx]
  IN /\ atom.element = "O" /\ atom.formal_charge = 0 /\ atom.total_degree > 1
     /\ \E i \in DOMAIN p.adjacency[atom_idx] :
          "HYPERVALENT_BRIDGE" \in p.atoms[p.adjacency[atom_idx][i][1]].conjugation_roles

RECURSIVE mark_intrinsic_pi_carriers_from(_, _)
mark_intrinsic_pi_carriers_from(p, i) ==
  IF i > Len(p.atoms) THEN p
  ELSE mark_intrinsic_pi_carriers_from(
         IF ~should_skip_intrinsic_pi(p, i)
            /\ (p.atoms[i].is_aromatic \/ p.atoms[i].hybridization \in {"SP", "SP2"})
           THEN [p EXCEPT !.atoms[i].conjugation_roles = @ \cup {"PI_CARRIER"}]
         ELSE p,
         i + 1)

mark_intrinsic_pi_carriers(p) == mark_intrinsic_pi_carriers_from(p, 1)

\* the loop over the neighbours of an atom in promote_lone_pair_donors
lone_pair_promote(p, atom_idx) ==
  \E i \in DOMAIN p.adjacency[atom_idx] :
    LET roles == p.atoms[p.adjacency[atom_idx][i][1]].conjugation_roles
    IN /\ roles # {}
       /\ ("HYPERVALENT_BRIDGE" \in roles => p.atoms[atom_idx].formal_charge < 0)

RECURSIVE promote_lone_pair_donors_from(_, _)
promote_lone_pair_donors_from(p, i) ==
  IF i > Len(p.atoms) THEN p
  ELSE
    LET atom == p.atoms[i]
    IN promote_lone_pair_donors_from(
         IF /\ atom.lone_pairs # 0
            /\ lone_pair_promote(p, i)
            /\ ~(atom.element = "O" /\ atom.formal_charge = 0 /\ atom.total_degree > 1)
           THEN [p EXCEPT !.atoms[i].conjugation_roles = @ \cup {"LONE_PAIR_DONOR"}]
         ELSE p,
         i + 1)

promote_lone_pair_donors(p) == promote_lone_pair_donors_from(p, 1)

promote_charged_carbons(p) ==
  [p EXCEPT !.atoms = [i \in DOMAIN p.atoms |->
     IF /\ p.atoms[i].element = "C"
        /\ \/ (p.atoms[i].formal_charge = 1 /\ p.atoms[i].total_degree = 3)
           \/ p.atoms[i].formal_charge = -1
       THEN [p.atoms[i] EXCEPT !.conjugation_roles = @ \cup {"CHARGE_MEDIATOR"}]
     ELSE p.atoms[i]]]

finalize_candidate_flags_all(p) ==
  [p EXCEPT !.atoms = [i \in DOMAIN p.atoms |->
     [p.atoms[i] EXCEPT !.is_conjugation_candidate = TRUE]]]

finalize_candidate_flags(p) ==
  [p EXCEPT !.atoms = [i \in DOMAIN p.atoms |->
     [p.atoms[i] EXCEPT !.is_conjugation_candidate = (p.atoms[i].conjugation_roles # {})]]]

determine(p) ==
  finalize_candidate_flags(
    promote_charged_carbons(
      promote_lone_pair_donors(
        mark_intrinsic_pi_carriers(
          mark_hypervalent_bridges(
            reset_conjugation_state(p))))))

(***************************************************************************)
(* resonance/system.rs, resonance/find.rs                                  *)
(***************************************************************************)
\* a constructor that keeps the lists as they are handed in
ResonanceSystem_unsorted(atom_ids, bond_ids) ==
  [atoms |-> atom_ids, bonds |-> bond_ids]

ResonanceSystem_new(atom_ids, bond_ids) ==
  [atoms |-> SortedSeqOf(Range(atom_ids)), bonds |-> SortedSeqOf(Range(bond_ids))]

is_seed_by_input_order(bond) == bond.order \in {"Double", "Triple"}

is_seed(bond) ==
  bond.is_aromatic \/ effective_order(bond) \in {"Double", "Triple"}

\* the bond indices walked for one frontier bond: for each endpoint that is
\* a candidate, its incident bonds whose other end is a candidate
expansion_targets(p, bond) ==
  LET at(atom_id) ==
        LET atom_idx == p.atom_id_to_index[atom_id]
            adj == p.adjacency[atom_idx]
            all == [i \in DOMAIN adj |-> p.bond_id_to_index[adj[i][2]]]
        IN IF ~p.atoms[atom_idx].is_conjugation_candidate THEN <<>>
           ELSE SelectSeq(all, LAMBDA n :
                  p.atoms[p.atom_id_to_index[other_end(p.bonds[n], atom_id)]]
                    .is_conjugation_candidate)
  IN at(bond.start_atom_id) \o at(bond.end_atom_id)

RECURSIVE push_new(_, _, _)
push_new(targets, i, st) ==
  IF i > Len(targets) THEN st
  ELSE push_new(targets, i + 1,
         IF targets[i] \in st.conjugated THEN st
         ELSE [conjugated |-> st.conjugated \cup {targets[i]},
               frontier |-> Append(st.frontier, targets[i])])

RECURSIVE expand_loop(_, _)
expand_loop(p, st) ==
  IF st.frontier = <<>> THEN st.conjugated
  ELSE expand_loop(p,
         push_new(expansion_targets(p, p.bonds[Head(st.frontier)]), 1,
                  [st EXCEPT !.frontier = Tail(@)]))

find_and_expand_conjugated_bonds(p) ==
  LET seeds == SelectSeq([k \in DOMAIN p.bonds |-> k], LAMBDA k : is_seed(p.bonds[k]))
  IN expand_loop(p, [conjugated |-> Range(seeds), frontier |-> seeds])

\* group_systems: the for loop over the adjacency lists of both endpoints
RECURSIVE group_scan(_, _, _, _, _)
group_scan(p, conjugated, ids, i, st) ==
  IF i > Len(ids) THEN st
  ELSE
    LET n == p.bond_id_to_index[ids[i]]
    IN group_scan(p, conjugated, ids, i + 1,
         IF n \in conjugated /\ n \notin st.visited
           THEN [st EXCEPT !.visited = @ \cup {n}, !.queue = Append(@, n)]
         ELSE st)

\* group_systems: the while loop over the queue
RECURSIVE group_loop(_, _, _)
group_loop(p, conjugated, st) ==
  IF st.queue = <<>> THEN st
  ELSE
    LET bond == p.bonds[Head(st.queue)]
        st1 == [st EXCEPT
                  !.queue = Tail(@),
                  !.system_bond_ids = Append(@, bond.id),
                  !.system_atom_ids = @ \cup {bond.start_atom_id, bond.end_atom_id}]
    IN group_loop(p, conjugated,
         group_scan(p, conjugated, incident_bond_ids(p, bond), 1, st1))

\* a visited test that never skips a start bond
start_is_visited_never(visited_bonds, start_bond_idx) == FALSE

\* if visited_bonds[start_bond_idx] { continue; }
start_is_visited(visited_bonds, start_bond_idx) == start_bond_idx \in visited_bonds

\* group_systems: the loop over the conjugated set, iterated in `order`
RECURSIVE group_from(_, _, _, _, _, _)
group_from(p, conjugated, order, i, visited_bonds, systems) ==
  IF i > Len(order) THEN systems
  ELSE IF start_is_visited(visited_bonds, order[i])
    THEN group_from(p, conjugated, order, i + 1, visited_bonds, systems)
  ELSE
    LET st == group_loop(p, conjugated,
                [queue |-> <<order[i]>>, visited |-> visited_bonds \cup {order[i]},
                 system_bond_ids |-> <<>>, system_atom_ids |-> {}])
    IN group_from(p, conjugated, order, i + 1, st.visited,
         IF st.system_bond_ids # <<>>
           THEN Append(systems,
                  ResonanceSystem_new(DescSeqOf(st.system_atom_ids), st.system_bond_ids))
         ELSE systems)

\* sort_by, as an insertion sort on the bond lists
RECURSIVE insert_system(_, _)
insert_system(sorted, sys) ==
  IF sorted = <<>> THEN <<sys>>
  ELSE IF LexLess(sys.bonds, Head(sorted).bonds) THEN <<sys>> \o sorted
  ELSE <<Head(sorted)>> \o insert_system(Tail(sorted), sys)

RECURSIVE sort_systems_from(_, _, _)
sort_systems_from(systems, i, acc) ==
  IF i > Len(systems) THEN acc
  ELSE sort_systems_from(systems, i + 1, insert_system(acc, systems[i]))

\* systems.sort_by(|a, b| a.bonds.cmp(&b.bonds))
sort_systems(systems) == sort_systems_from(systems, 1, <<>>)

group_systems(p, conjugated, order) ==
  sort_systems(group_from(p, conjugated, order, 1, {}, <<>>))

\* find_systems, with the conjugated HashSet iterated in `order`
find_systems(p, order) ==
  IF p.bonds = <<>> THEN <<>>
  ELSE group_systems(p, find_and_expand_conjugated_bonds(p), order)

(***************************************************************************)
(* Input graphs                                                            *)
(***************************************************************************)
\* Bounds of the generated families
MaxDefectBonds == 3

MaxRingSize == 5

\* Graphs with defects: two declared atoms (ids 2 and 1, in that order) and
\* up to MaxDefectBonds Single bonds, in every order, drawn from: a bond
\* between the declared atoms in either orientation, a self-loop, and bonds
\* to the undeclared ids 8 and 9.
DefectPairs == {<<1, 2>>, <<2, 1>>, <<1, 1>>, <<1, 9>>, <<9, 1>>, <<8, 9>>}

DefectInput(ends) ==
  Graph(<<AtomView(2, "C", 0), AtomView(1, "C", 0)>>,
        [k \in DOMAIN ends |-> BondView(10 * k, "Single", ends[k][1], ends[k][2])])

DefectInputs ==
  {DefectInput(ends) : ends \in UNION {[1..m -> DefectPairs] : m \in 0..MaxDefectBonds}}

\* the same graph with atom id a renamed 100 - a and bond id b renamed 50 - b,
\* so that id order is the reverse of index order
Relabel(g) ==
  Graph([i \in DOMAIN g.atoms |-> [g.atoms[i] EXCEPT !.id = 100 - @]],
        [k \in DOMAIN g.bonds |->
           [g.bonds[k] EXCEPT !.id = 50 - @, !.start_atom_id = 100 - @,
                              !.end_atom_id = 100 - @]])

\* the same graph with its bonds yielded in reverse order
ReverseBonds(g) ==
  Graph(g.atoms, [k \in DOMAIN g.bonds |-> g.bonds[Len(g.bonds) + 1 - k]])

\* the same graph with its atoms yielded in reverse order
ReverseAtoms(g) ==
  Graph([i \in DOMAIN g.atoms |-> g.atoms[Len(g.atoms) + 1 - i]], g.bonds)

\* Monocycles of 3..MaxRingSize atoms: atom 0 is C, N, O or C(-1), with or
\* without a hydrogen on it, the other ring atoms are carbons, and every
\* ring bond is Single, Double or Aromatic.
RingHeads == {<<"C", 0>>, <<"N", 0>>, <<"O", 0>>, <<"C", -1>>}

RingInput(head, with_h, orders) ==
  LET n == Len(orders)
      h == IF with_h THEN 1 ELSE 0
  IN Mol([i \in 1..(n + h) |->
            IF i = 1 THEN head ELSE IF i <= n THEN <<"C", 0>> ELSE <<"H", 0>>],
         [k \in 1..(n + h) |->
            IF k <= n THEN <<k - 1, k % n, orders[k]>> ELSE <<0, n, "Single">>])

RingInputs ==
  {RingInput(head, with_h, orders) :
     head \in RingHeads, with_h \in BOOLEAN,
     orders \in UNION {[1..m -> {"Single", "Double", "Aromatic"}] : m \in 3..MaxRingSize}}

\* g with one more hydrogen on its first atom
WithExtraHydrogen(g) ==
  Graph(Append(g.atoms, AtomView(Len(g.atoms), "H", 0)),
        Append(g.bonds, BondView(Len(g.bonds), "Single", g.atoms[1].id, Len(g.atoms))))

\* Monocycles whose bonds would pass the Hueckel count with a suitable
\* first atom (a three-ring with one Double bond, a five-ring diene, a
\* six-ring triene), with first atoms that take part, that give nothing,
\* that are no conjugation element, or that carry four neighbours; and
\* monocycles of Aromatic bonds through a CH2 carbon.
HeteroRingInputs ==
  LET orders == {<<"Double", "Single", "Single">>,
                 <<"Single", "Double", "Single", "Double", "Single">>,
                 <<"Double", "Single", "Double", "Single", "Double", "Single">>}
  IN {RingInput(head, with_h, o) :
        head \in {<<"N", 1>>, <<"S", 0>>, <<"B", 0>>, <<"Fe", 0>>},
        with_h \in BOOLEAN, o \in orders}
       \cup {WithExtraHydrogen(RingInput(<<"C", 0>>, TRUE, o)) : o \in orders}
       \cup {WithExtraHydrogen(RingInput(<<"C", 0>>, TRUE, [k \in 1..m |-> "Aromatic"])) :
               m \in 3..MaxRingSize}

\* Carbon skeletons that exercise the ring finder
Triangle == Carbons(3, <<<<0, 1>>, <<1, 2>>, <<2, 0>>>>)

Square == Carbons(4, <<<<0, 1>>, <<1, 2>>, <<2, 3>>, <<3, 0>>>>)

Chain == Carbons(3, <<<<0, 1>>, <<1, 2>>>>)

FusedTriangles == Carbons(4, <<<<0, 1>>, <<1, 2>>, <<2, 0>>, <<1, 3>>, <<3, 2>>>>)

SpiroSquares ==
  Carbons(7, <<<<0, 1>>, <<1, 2>>, <<2, 3>>, <<3, 0>>,
               <<3, 4>>, <<4, 5>>, <<5, 6>>, <<6, 3>>>>)

TwoTriangles ==
  Carbons(6, <<<<0, 1>>, <<1, 2>>, <<2, 0>>, <<3, 4>>, <<4, 5>>, <<5, 3>>>>)

\* K4 on atoms 0..3 with atom 4 bridging 0 and 1, two bond listings
K4EarA ==
  Carbons(5, <<<<3, 2>>, <<1, 4>>, <<2, 0>>, <<0, 3>>,
               <<2, 1>>, <<1, 3>>, <<4, 0>>, <<1, 0>>>>)

K4EarB ==
  Carbons(5, <<<<0, 3>>, <<1, 0>>, <<3, 2>>, <<2, 0>>,
               <<2, 1>>, <<1, 4>>, <<3, 1>>, <<0, 4>>>>)

\* K4 on atoms 0..3 and a separate triangle 4, 5, 6
K4AndTriangle ==
  Carbons(7, <<<<3, 2>>, <<0, 2>>, <<0, 1>>, <<2, 1>>, <<1, 3>>, <<0, 3>>,
               <<5, 6>>, <<4, 6>>, <<4, 5>>>>)

\* triangle 0, 1, 2 with a two-bond bridge over each of its edges
BridgedTriangle ==
  Carbons(6, <<<<4, 1>>, <<2, 4>>, <<0, 5>>, <<3, 1>>, <<0, 3>>,
               <<1, 0>>, <<2, 5>>, <<1, 2>>, <<2, 0>>>>)

\* one atom with a bond to itself
SelfLoop(order) == Mol(<<<<"C", 0>>>>, <<<<0, 0, order>>>>)

SkeletonInputs ==
  LET base == {Triangle, Square, Chain, FusedTriangles, SpiroSquares, TwoTriangles,
               K4EarA, K4EarB, K4AndTriangle, BridgedTriangle}
  IN base \cup {ReverseBonds(g) : g \in base} \cup {Relabel(g) : g \in base}
       \cup {SelfLoop(o) : o \in BondOrders}

\* Molecules
Benzene(ring_orders) ==
  Mol([i \in 1..12 |-> IF i <= 6 THEN <<"C", 0>> ELSE <<"H", 0>>],
      [k \in 1..12 |->
         IF k <= 6 THEN <<k - 1, k % 6, ring_orders[k]>> ELSE <<k - 7, k - 1, "Single">>])

KekuleOrders == <<"Double", "Single", "Double", "Single", "Double", "Single">>

AromaticOrders == [k \in 1..6 |-> "Aromatic"]

Formate ==
  Mol(<<<<"C", 0>>, <<"H", 0>>, <<"O", 0>>, <<"O", -1>>>>,
      <<<<0, 1, "Single">>, <<0, 2, "Double">>, <<0, 3, "Single">>>>)

Butadiene ==
  Mol([i \in 1..10 |-> IF i <= 4 THEN <<"C", 0>> ELSE <<"H", 0>>],
      <<<<0, 1, "Double">>, <<1, 2, "Single">>, <<2, 3, "Double">>,
        <<0, 4, "Single">>, <<0, 5, "Single">>, <<1, 6, "Single">>,
        <<2, 7, "Single">>, <<3, 8, "Single">>, <<3, 9, "Single">>>>)

\* two ethene units held apart by a saturated carbon
Pentadiene14 ==
  Mol([i \in 1..13 |-> IF i <= 5 THEN <<"C", 0>> ELSE <<"H", 0>>],
      <<<<3, 4, "Double">>, <<0, 1, "Double">>, <<1, 2, "Single">>, <<2, 3, "Single">>,
        <<0, 5, "Single">>, <<0, 6, "Single">>, <<1, 7, "Single">>, <<2, 8, "Single">>,
        <<2, 9, "Single">>, <<3, 10, "Single">>, <<4, 11, "Single">>, <<4, 12, "Single">>>>)

\* a butadiene unit and an ethene unit held apart by a saturated carbon
Heptatriene136 ==
  Mol([i \in 1..17 |-> IF i <= 7 THEN <<"C", 0>> ELSE <<"H", 0>>],
      <<<<5, 6, "Double">>, <<0, 1, "Double">>, <<1, 2, "Single">>, <<2, 3, "Double">>,
        <<3, 4, "Single">>, <<4, 5, "Single">>, <<0, 7, "Single">>, <<0, 8, "Single">>,
        <<1, 9, "Single">>, <<2, 10, "Single">>, <<3, 11, "Single">>, <<4, 12, "Single">>,
        <<4, 13, "Single">>, <<5, 14, "Single">>, <<6, 15, "Single">>, <<6, 16, "Single">>>>)

Acetamide ==
  Mol(<<<<"C", 0>>, <<"O", 0>>, <<"N", 0>>, <<"C", 0>>,
        <<"H", 0>>, <<"H", 0>>, <<"H", 0>>, <<"H", 0>>, <<"H", 0>>>>,
      <<<<0, 1, "Double">>, <<0, 2, "Single">>, <<0, 3, "Single">>,
        <<2, 4, "Single">>, <<2, 5, "Single">>, <<3, 6, "Single">>,
        <<3, 7, "Single">>, <<3, 8, "Single">>>>)

\* four carbons in a row joined by Aromatic bonds, the middle bond first
AromaticChain ==
  Mol([i \in 1..4 |-> <<"C", 0>>],
      <<<<1, 2, "Aromatic">>, <<0, 1, "Aromatic">>, <<2, 3, "Aromatic">>>>)

\* naphthalene's carbon skeleton (rings 0..5 and 4,6,7,8,9,5 fused at 4-5),
\* every bond Aromatic, the bonds listed in no particular order
Naphthalene ==
  Mol([i \in 1..10 |-> <<"C", 0>>],
      <<<<4, 3, "Aromatic">>, <<9, 8, "Aromatic">>, <<5, 4, "Aromatic">>,
        <<1, 0, "Aromatic">>, <<7, 6, "Aromatic">>, <<5, 9, "Aromatic">>,
        <<5, 0, "Aromatic">>, <<2, 3, "Aromatic">>, <<2, 1, "Aromatic">>,
        <<7, 8, "Aromatic">>, <<6, 4, "Aromatic">>>>)

Ethane ==
  Mol([i \in 1..8 |-> IF i <= 2 THEN <<"C", 0>> ELSE <<"H", 0>>],
      <<<<0, 1, "Single">>, <<0, 2, "Single">>, <<0, 3, "Single">>, <<0, 4, "Single">>,
        <<1, 5, "Single">>, <<1, 6, "Single">>, <<1, 7, "Single">>>>)

\* a carbon with n neighbours, each joined to it by a bond of the given order
Star(n, order) ==
  Mol([i \in 1..(n + 1) |-> <<"C", 0>>], [k \in 1..n |-> <<0, k, order>>])

\* stars whose centre has a bond order sum of 255 and of 258
StarInputs == {Star(85, "Triple"), Star(86, "Triple")}

\* 1-vinyltriazane, CH2=CH-NH-NH-NH2: atoms 0..4 are C, C, N, N, N
Vinyltriazane ==
  Mol(<<<<"C", 0>>, <<"C", 0>>, <<"N", 0>>, <<"N", 0>>, <<"N", 0>>, <<"H", 0>>,
        <<"H", 0>>, <<"H", 0>>, <<"H", 0>>, <<"H", 0>>, <<"H", 0>>, <<"H", 0>>>>,
      <<<<0, 1, "Double">>, <<1, 2, "Single">>, <<2, 3, "Single">>, <<3, 4, "Single">>,
        <<0, 5, "Single">>, <<0, 6, "Single">>, <<1, 7, "Single">>, <<2, 8, "Single">>,
        <<3, 9, "Single">>, <<4, 10, "Single">>, <<4, 11, "Single">>>>)

\* build_biphenyl: ring carbons 0..5 and 6..11, ring bonds added left, right
\* in turn (ids 0..11), the link 1-10 (id 12), then a hydrogen on every
\* ring carbon but 1 and 10
Biphenyl ==
  LET ring_orders == <<"Double", "Single", "Double", "Single", "Double", "Single">>
      with_h == <<0, 2, 3, 4, 5, 6, 7, 8, 9, 11>>
  IN Mol([i \in 1..22 |-> IF i <= 12 THEN <<"C", 0>> ELSE <<"H", 0>>],
         [k \in 1..23 |->
            IF k <= 12
              THEN LET i == (k - 1) \div 2
                       base == IF k % 2 = 1 THEN 0 ELSE 6
                   IN <<base + i, base + ((i + 1) % 6), ring_orders[i + 1]>>
            ELSE IF k = 13 THEN <<1, 10, "Single">>
            ELSE <<with_h[k - 13], k - 2, "Single">>])

\* build_glycine_zwitterion: +H3N-CH2-C(=O)O-
GlycineZwitterion ==
  Mol(<<<<"N", 1>>, <<"C", 0>>, <<"C", 0>>, <<"O", -1>>, <<"O", 0>>, <<"H", 0>>,
        <<"H", 0>>, <<"H", 0>>, <<"H", 0>>, <<"H", 0>>>>,
      <<<<0, 1, "Single">>, <<1, 2, "Single">>, <<2, 3, "Single">>, <<2, 4, "Double">>,
        <<0, 5, "Single">>, <<0, 6, "Single">>, <<0, 7, "Single">>, <<1, 8, "Single">>,
        <<1, 9, "Single">>>>)

\* build_phosphate_fragment: P(=O)(O-)(O-C-H)(O); atoms 0 P, 1 O, 2 O(-1),
\* 3 O, 4 C, 5 O, 6 H
PhosphateFragment ==
  Mol(<<<<"P", 0>>, <<"O", 0>>, <<"O", -1>>, <<"O", 0>>, <<"C", 0>>, <<"O", 0>>,
        <<"H", 0>>>>,
      <<<<0, 1, "Double">>, <<0, 2, "Single">>, <<0, 3, "Single">>, <<3, 4, "Single">>,
        <<0, 5, "Single">>, <<4, 6, "Single">>>>)

\* a carbon with two hydrogens and two Double bonds to carbons: atom 0 has
\* four neighbours and is no conjugation candidate
TwoDoublesAtCarbon ==
  Mol(<<<<"C", 0>>, <<"C", 0>>, <<"C", 0>>, <<"H", 0>>, <<"H", 0>>>>,
      <<<<0, 1, "Double">>, <<0, 2, "Double">>, <<0, 3, "Single">>, <<0, 4, "Single">>>>)

NoBonds == Mol(<<<<"C", 0>>, <<"O", 0>>>>, <<>>)

MoleculeInputs ==
  LET base == {Benzene(KekuleOrders), Benzene(AromaticOrders), Formate, Butadiene,
               Pentadiene14, Heptatriene136, Acetamide, AromaticChain, Naphthalene, Ethane,
               Vinyltriazane, Biphenyl,
               GlycineZwitterion, PhosphateFragment,
               TwoDoublesAtCarbon, NoBonds}
  IN base \cup {ReverseBonds(g) : g \in base} \cup {Relabel(g) : g \in base}
       \cup {ReverseAtoms(g) : g \in base}

Inputs ==
  DefectInputs \cup RingInputs \cup HeteroRingInputs \cup SkeletonInputs \cup MoleculeInputs

(***************************************************************************)
(* lib.rs find_resonance_systems -> from_graph -> find_systems             *)
(***************************************************************************)
P == [atoms |-> atoms, bonds |-> bonds, adjacency |-> adjacency,
      atom_id_to_index |-> atom_id_to_index, bond_id_to_index |-> bond_id_to_index,
      ring_info |-> ring_info]

Store(p) ==
  /\ atoms' = p.atoms
  /\ bonds' = p.bonds
  /\ adjacency' = p.adjacency
  /\ atom_id_to_index' = p.atom_id_to_index
  /\ bond_id_to_index' = p.bond_id_to_index
  /\ ring_info' = p.ring_info

Pending == [kind |-> "Pending", error |-> NoError, systems |-> <<>>]

Err(e) == [kind |-> "Err", error |-> e, systems |-> <<>>]

Ok(systems) == [kind |-> "Ok", error |-> NoError, systems |-> systems]

Panicked == [kind |-> "Panic", error |-> NoError, systems |-> <<>>]

Init ==
  /\ input \in Inputs
  /\ pc = "from_graph"
  /\ atoms = <<>>
  /\ bonds = <<>>
  /\ adjacency = <<>>
  /\ atom_id_to_index = EmptyMap
  /\ bond_id_to_index = EmptyMap
  /\ ring_info = <<>>
  /\ total_attempts = 0
  /\ kekulize_bond_idx = 1
  /\ kekulize_visited = {}
  /\ valence_bond_idx = 0
  /\ molecule = Molecule_new
  /\ last_call = NoCall
  /\ result = Pending

\* from_graph, lines 215-278
BuildGraph ==
  /\ UNCHANGED <<molecule, last_call>>
  /\ UNCHANGED <<kekulize_bond_idx, kekulize_visited, valence_bond_idx>>
  /\ pc = "from_graph"
  /\ LET b == build_perception(input)
     IN IF b.err # NoError
          THEN /\ pc' = "done"
               /\ result' = Err(b.err)
               /\ UNCHANGED <<atoms, bonds, adjacency, atom_id_to_index,
                              bond_id_to_index, ring_info>>
        ELSE /\ Store(b)
             /\ pc' = "find_sssr"
             /\ UNCHANGED result
  /\ UNCHANGED <<input, total_attempts>>

\* from_graph, lines 280-294
FindRings ==
  /\ UNCHANGED <<molecule, last_call>>
  /\ UNCHANGED <<kekulize_bond_idx, kekulize_visited, valence_bond_idx>>
  /\ pc = "find_sssr"
  /\ Store(mark_rings(P))
  /\ pc' = "aromaticity"
  /\ UNCHANGED <<input, total_attempts, result>>

\* from_graph, line 296.  Where a Hueckel test overflows, a build with
\* overflow checks panics and a build without them wraps.
PerceiveAromaticity ==
  /\ UNCHANGED <<molecule, last_call>>
  /\ UNCHANGED <<kekulize_bond_idx, kekulize_visited, valence_bond_idx>>
  /\ pc = "aromaticity"
  /\ \/ /\ Store(aromaticity_perceive(P))
        /\ pc' = "kekulize"
        /\ UNCHANGED result
     \/ /\ aromaticity_overflows(P)
        /\ pc' = "done"
        /\ result' = Panicked
        /\ UNCHANGED <<atoms, bonds, adjacency, atom_id_to_index,
                       bond_id_to_index, ring_info>>
  /\ UNCHANGED <<input, total_attempts>>

\* from_graph, line 298
Kekulize ==
  /\ UNCHANGED <<molecule, last_call>>
  /\ UNCHANGED <<kekulize_bond_idx, kekulize_visited, valence_bond_idx>>
  /\ pc = "kekulize"
  /\ LET r == kekulize(P)
     IN /\ total_attempts' = r.attempts
        /\ IF r.ok
             THEN /\ bonds' = r.bonds
                  /\ pc' = "state"
                  /\ UNCHANGED result
           ELSE /\ pc' = "done"
                /\ result' = Err(KekulizationFailed(r.attempts))
                /\ UNCHANGED bonds
  /\ UNCHANGED <<input, atoms, adjacency, atom_id_to_index, bond_id_to_index, ring_info>>

\* from_graph, line 300
PerceiveState ==
  /\ UNCHANGED <<molecule, last_call>>
  /\ UNCHANGED <<kekulize_bond_idx, kekulize_visited, valence_bond_idx>>
  /\ pc = "state"
  /\ Store(state_perceive(P))
  /\ pc' = "determine"
  /\ UNCHANGED <<input, total_attempts, result>>

\* from_graph, line 302
DetermineCandidates ==
  /\ UNCHANGED <<molecule, last_call>>
  /\ UNCHANGED <<kekulize_bond_idx, kekulize_visited, valence_bond_idx>>
  /\ pc = "determine"
  /\ Store(determine(P))
  /\ pc' = "find_systems"
  /\ UNCHANGED <<input, total_attempts, result>>

\* find_resonance_systems, lines 178-180
FindSystems ==
  /\ UNCHANGED <<molecule, last_call>>
  /\ UNCHANGED <<kekulize_bond_idx, kekulize_visited, valence_bond_idx>>
  /\ pc = "find_systems"
  /\ \E order \in IterOrders(find_and_expand_conjugated_bonds(P)) :
       result' = Ok(find_systems(P, order))
  /\ pc' = "done"
  /\ UNCHANGED <<input, atoms, bonds, adjacency, atom_id_to_index,
                 bond_id_to_index, ring_info, total_attempts>>

Next ==
  \/ BuildGraph
  \/ FindRings
  \/ PerceiveAromaticity
  \/ Kekulize
  \/ PerceiveState
  \/ DetermineCandidates
  \/ FindSystems

Spec == Init /\ [][Next]_vars

(***************************************************************************)
(* The same calls composed: every outcome find_resonance_systems can have  *)
(* on a graph                                                              *)
(***************************************************************************)
\* from_graph, lines 300-302, then find_systems: the outcomes once kekulize
\* has succeeded, one for each iteration order of the conjugated-bond set
outcomes_after_kekulize(p) ==
  LET q == determine(state_perceive(p))
  IN {Ok(find_systems(q, order)) :
        order \in IterOrders(find_and_expand_conjugated_bonds(q))}

\* from_graph, lines 296-298
outcomes_after_rings(p) ==
  LET r == kekulize(aromaticity_perceive(p))
  IN (IF aromaticity_overflows(p) THEN {Panicked} ELSE {})
       \cup (IF r.ok
               THEN outcomes_after_kekulize(
                      [aromaticity_perceive(p) EXCEPT !.bonds = r.bonds])
             ELSE {Err(KekulizationFailed(r.attempts))})

\* find_resonance_systems, lines 173-181
find_resonance_systems(g) ==
  LET b == build_perception(g)
  IN IF b.err # NoError THEN {Err(b.err)}
     ELSE outcomes_after_rings(
            mark_rings([atoms |-> b.atoms, bonds |-> b.bonds,
                        adjacency |-> b.adjacency,
                        atom_id_to_index |-> b.atom_id_to_index,
                        bond_id_to_index |-> b.bond_id_to_index,
                        ring_info |-> b.ring_info]))

(***************************************************************************)
(* kekulize.rs kekulize, one pass of its loop at a time                    *)
(***************************************************************************)
\* count separate chains of len Aromatic bonds each, between carbons
AromaticChains(count, len) ==
  Mol([i \in 1..(count * (len + 1)) |-> <<"C", 0>>],
      [k \in 1..(count * len) |->
         LET c == (k - 1) \div len
             j == (k - 1) % len
         IN <<c * (len + 1) + j, c * (len + 1) + j + 1, "Aromatic">>])

\* Inputs whose number of aromatic bonds is at, just below or just above
\* the attempt limit.
KekulizeInputs ==
  {AromaticChains(KEKULIZATION_ATTEMPT_LIMIT \div len + extra, len) :
     len \in {3, 4}, extra \in {0, 1}}
    \cup {AromaticChains(KEKULIZATION_ATTEMPT_LIMIT \div 7 + 1, 7)}

\* The perception from_graph holds when it calls kekulize, for a sound
\* graph g without rings: the graph build of lines 215-278 and the flags
\* set by apply_explicit_aromaticity; find_sssr returns no ring.
PerceptionAtKekulize(g) ==
  LET incident(a) ==
        SelectSeq(g.bonds, LAMBDA b : a \in {b.start_atom_id, b.end_atom_id})
      a2i == [id \in {g.atoms[i].id : i \in DOMAIN g.atoms} |->
                CHOOSE i \in DOMAIN g.atoms : g.atoms[i].id = id]
      adj == [i \in DOMAIN g.atoms |->
                LET inc == incident(g.atoms[i].id)
                IN [j \in DOMAIN inc |->
                      <<a2i[other_end(inc[j], g.atoms[i].id)], inc[j].id>>]]
  IN [atoms |-> [i \in DOMAIN g.atoms |->
                   [PerceivedAtom_new(g.atoms[i].id, g.atoms[i].element,
                                      g.atoms[i].formal_charge, Len(adj[i]))
                      EXCEPT !.is_aromatic =
                        \E j \in DOMAIN incident(g.atoms[i].id) :
                          incident(g.atoms[i].id)[j].order = "Aromatic"]],
      bonds |-> [k \in DOMAIN g.bonds |->
                   [PerceivedBond_new(g.bonds[k].id, g.bonds[k].order,
                                      g.bonds[k].start_atom_id, g.bonds[k].end_atom_id)
                      EXCEPT !.is_aromatic = (g.bonds[k].order = "Aromatic")]],
      adjacency |-> adj,
      atom_id_to_index |-> a2i,
      bond_id_to_index |-> [id \in {g.bonds[k].id : k \in DOMAIN g.bonds} |->
                              CHOOSE k \in DOMAIN g.bonds : g.bonds[k].id = id],
      ring_info |-> <<>>]

\* from_graph about to call kekulize (line 298)
KekulizeInit ==
  /\ input \in KekulizeInputs
  /\ pc = "kekulize"
  /\ atoms = PerceptionAtKekulize(input).atoms
  /\ bonds = PerceptionAtKekulize(input).bonds
  /\ adjacency = PerceptionAtKekulize(input).adjacency
  /\ atom_id_to_index = PerceptionAtKekulize(input).atom_id_to_index
  /\ bond_id_to_index = PerceptionAtKekulize(input).bond_id_to_index
  /\ ring_info = <<>>
  /\ total_attempts = 0
  /\ kekulize_bond_idx = 1
  /\ kekulize_visited = {}
  /\ valence_bond_idx = 0
  /\ molecule = Molecule_new
  /\ last_call = NoCall
  /\ result = Pending

\* kekulize, lines 13-19: one pass of the loop; an error leaves kekulize,
\* from_graph and find_resonance_systems at once
KekulizeIteration ==
  /\ UNCHANGED <<molecule, last_call>>
  /\ UNCHANGED valence_bond_idx
  /\ pc = "kekulize"
  /\ kekulize_bond_idx <= Len(bonds)
  /\ LET r == kekulize_iteration(P, kekulize_bond_idx,
                [ok |-> TRUE, bonds |-> bonds, attempts |-> total_attempts,
                 visited |-> kekulize_visited])
     IN /\ total_attempts' = r.attempts
        /\ IF r.ok
             THEN /\ bonds' = r.bonds
                  /\ kekulize_visited' = r.visited
                  /\ kekulize_bond_idx' = kekulize_bond_idx + 1
                  /\ UNCHANGED <<pc, result>>
           ELSE /\ pc' = "done"
                /\ result' = Err(KekulizationFailed(r.attempts))
                /\ UNCHANGED <<bonds, kekulize_visited, kekulize_bond_idx>>
  /\ UNCHANGED <<input, atoms, adjacency, atom_id_to_index, bond_id_to_index, ring_info>>

\* kekulize, line 21: Ok(())
KekulizeReturn ==
  /\ UNCHANGED <<molecule, last_call>>
  /\ UNCHANGED valence_bond_idx
  /\ pc = "kekulize"
  /\ kekulize_bond_idx > Len(bonds)
  /\ pc' = "state"
  /\ UNCHANGED <<input, atoms, bonds, adjacency, atom_id_to_index, bond_id_to_index,
                 ring_info, total_attempts, kekulize_bond_idx, kekulize_visited, result>>

KekulizeNext == KekulizeIteration \/ KekulizeReturn

KekulizeSpec == KekulizeInit /\ [][KekulizeNext]_vars

(***************************************************************************)
(* state.rs compute_valence, one bond at a time                            *)
(***************************************************************************)
\* graphs without rings: the two stars and small molecules
ValenceInputs ==
  StarInputs \cup {AromaticChain, AromaticChains(2, 3), Butadiene, Pentadiene14,
                   Formate, Acetamide, Ethane}

\* from_graph about to call kekulize (line 298)
ValenceInit ==
  /\ input \in ValenceInputs
  /\ pc = "kekulize"
  /\ atoms = PerceptionAtKekulize(input).atoms
  /\ bonds = PerceptionAtKekulize(input).bonds
  /\ adjacency = PerceptionAtKekulize(input).adjacency
  /\ atom_id_to_index = PerceptionAtKekulize(input).atom_id_to_index
  /\ bond_id_to_index = PerceptionAtKekulize(input).bond_id_to_index
  /\ ring_info = <<>>
  /\ total_attempts = 0
  /\ kekulize_bond_idx = 1
  /\ kekulize_visited = {}
  /\ valence_bond_idx = 0
  /\ molecule = Molecule_new
  /\ last_call = NoCall
  /\ result = Pending

\* compute_valence, lines 26-28
ValenceReset ==
  /\ UNCHANGED <<molecule, last_call>>
  /\ pc = "state"
  /\ valence_bond_idx = 0
  /\ atoms' = valence_reset(atoms)
  /\ valence_bond_idx' = 1
  /\ UNCHANGED <<input, pc, bonds, adjacency, atom_id_to_index, bond_id_to_index,
                 ring_info, total_attempts, kekulize_bond_idx, kekulize_visited, result>>

\* compute_valence, lines 30-44: one pass of the bond loop
ValenceIteration ==
  /\ UNCHANGED <<molecule, last_call>>
  /\ pc = "state"
  /\ valence_bond_idx >= 1
  /\ valence_bond_idx <= Len(bonds)
  /\ atoms' = valence_iteration(P, valence_bond_idx, atoms)
  /\ valence_bond_idx' = valence_bond_idx + 1
  /\ UNCHANGED <<input, pc, bonds, adjacency, atom_id_to_index, bond_id_to_index,
                 ring_info, total_attempts, kekulize_bond_idx, kekulize_visited, result>>

\* state::perceive, line 21, and its return
PerceiveHybridization ==
  /\ UNCHANGED <<molecule, last_call>>
  /\ pc = "state"
  /\ valence_bond_idx > Len(bonds)
  /\ atoms' = perceive_hybridization(P).atoms
  /\ pc' = "determine"
  /\ UNCHANGED <<input, bonds, adjacency, atom_id_to_index, bond_id_to_index,
                 ring_info, total_attempts, kekulize_bond_idx, kekulize_visited,
                 valence_bond_idx, result>>

ValenceNext == Kekulize \/ ValenceReset \/ ValenceIteration \/ PerceiveHybridization

ValenceSpec == ValenceInit /\ [][ValenceNext]_vars

(***************************************************************************)
(* molecule.rs: a Molecule built call by call, then handed to from_graph   *)
(***************************************************************************)
MaxMoleculeAtoms == 3

\* the orders add_bond is called with
MoleculeOrders == {"Single", "Double"}

MoleculeInit ==
  /\ input = Graph(<<>>, <<>>)
  /\ pc = "molecule"
  /\ atoms = <<>>
  /\ bonds = <<>>
  /\ adjacency = <<>>
  /\ atom_id_to_index = EmptyMap
  /\ bond_id_to_index = EmptyMap
  /\ ring_info = <<>>
  /\ total_attempts = 0
  /\ kekulize_bond_idx = 1
  /\ kekulize_visited = {}
  /\ valence_bond_idx = 0
  /\ molecule = Molecule_new
  /\ last_call = NoCall
  /\ result = Pending

\* molecule.add_atom(Element::C, 0)
AddAtom ==
  /\ pc = "molecule"
  /\ Len(molecule.atoms) < MaxMoleculeAtoms
  /\ molecule' = add_atom(molecule, "C", 0).molecule
  /\ last_call' = [op |-> "add_atom", start |-> 0, end |-> 0, before |-> molecule,
                   ret |-> add_atom(molecule, "C", 0).ret]
  /\ UNCHANGED <<input, pc, atoms, bonds, adjacency, atom_id_to_index, bond_id_to_index,
                 ring_info, total_attempts, kekulize_bond_idx, kekulize_visited,
                 valence_bond_idx, result>>

\* molecule.add_bond(start_id, end_id, order), with ids up to one past the
\* highest atom id, while the molecule has room for one more bond than a
\* chain through its atoms needs
AddBond ==
  /\ pc = "molecule"
  /\ Len(molecule.bonds) + 1 < Len(molecule.atoms)
  /\ \E start_id, end_id \in 0..Len(molecule.atoms), order \in MoleculeOrders :
       /\ molecule' = add_bond(molecule, start_id, end_id, order).molecule
       /\ last_call' = [op |-> "add_bond", start |-> start_id, end |-> end_id,
                        before |-> molecule,
                        ret |-> add_bond(molecule, start_id, end_id, order).ret]
  /\ UNCHANGED <<input, pc, atoms, bonds, adjacency, atom_id_to_index, bond_id_to_index,
                 ring_info, total_attempts, kekulize_bond_idx, kekulize_visited,
                 valence_bond_idx, result>>

\* find_resonance_systems(&molecule): from_graph reads the molecule
SubmitMolecule ==
  /\ pc = "molecule"
  /\ input' = MoleculeGraph(molecule)
  /\ pc' = "from_graph"
  /\ UNCHANGED <<atoms, bonds, adjacency, atom_id_to_index, bond_id_to_index,
                 ring_info, total_attempts, kekulize_bond_idx, kekulize_visited,
                 valence_bond_idx, molecule, last_call, result>>

MoleculeNext == AddAtom \/ AddBond \/ SubmitMolecule \/ BuildGraph

MoleculeSpec == MoleculeInit /\ [][MoleculeNext]_vars

(***************************************************************************)
(* Properties                                                              *)
(***************************************************************************)
InputAtomIds == {input.atoms[i].id : i \in DOMAIN input.atoms}

InputBondIds == {input.bonds[k].id : k \in DOMAIN input.bonds}

\* the endpoints of the input bonds whose id is in ids
EndpointsOf(ids) ==
  UNION {{input.bonds[k].start_atom_id, input.bonds[k].end_atom_id} :
           k \in {j \in DOMAIN input.bonds : input.bonds[j].id \in ids}}

Succeeded == pc = "done" /\ result.kind = "Ok"

\* from_graph has returned Ok
Perceived == pc = "find_systems" \/ Succeeded

\* find_sssr has returned and its rings are stored
AfterRings ==
  \/ pc \in {"aromaticity", "kekulize", "state", "determine", "find_systems"}
  \/ pc = "done" /\ result.kind \in {"Ok", "Panic"}
  \/ pc = "done" /\ result.error.type = "KekulizationFailed"

Systems == result.systems

\* C1: on success every returned system has at least one bond, no bond id
\* is in two returned systems, and each system's atoms are exactly the
\* endpoints of its bonds.
C1_SystemsPartitionBonds ==
  Succeeded =>
    \A i \in DOMAIN Systems :
      /\ Len(Systems[i].bonds) >= 1
      /\ \A j \in DOMAIN Systems :
           i # j => Range(Systems[i].bonds) \cap Range(Systems[j].bonds) = {}
      /\ Range(Systems[i].atoms) = EndpointsOf(Range(Systems[i].bonds))

\* two systems are returned, one of them with more than one bond
C1_Witness ==
  /\ Succeeded
  /\ Len(Systems) >= 2
  /\ \E i \in DOMAIN Systems : Len(Systems[i].bonds) >= 2

\* C2: on success the atoms and the bonds of every system are strictly
\* ascending lists of ids of the input graph, and the systems are in
\* ascending lexicographic order of their bonds lists.
C2_SortedOutput ==
  Succeeded =>
    /\ \A i \in DOMAIN Systems :
         /\ StrictlyAscending(Systems[i].atoms)
         /\ StrictlyAscending(Systems[i].bonds)
         /\ Range(Systems[i].atoms) \subseteq InputAtomIds
         /\ Range(Systems[i].bonds) \subseteq InputBondIds
    /\ \A i, j \in DOMAIN Systems : i < j => LexLess(Systems[i].bonds, Systems[j].bonds)

\* two systems are returned for a graph whose ids descend along its atom
\* and bond lists
C2_Witness ==
  /\ Succeeded
  /\ Len(Systems) >= 2
  /\ Len(input.bonds) >= 2
  /\ input.atoms[1].id > input.atoms[2].id
  /\ input.bonds[1].id > input.bonds[2].id
  /\ \E i \in DOMAIN Systems : Len(Systems[i].atoms) >= 3

\* bond j of the input joins the same unordered pair as an earlier bond
Repeats(j) ==
  \E i \in 1..(j - 1) :
    {input.bonds[i].start_atom_id, input.bonds[i].end_atom_id}
      = {input.bonds[j].start_atom_id, input.bonds[j].end_atom_id}

\* bond j of the input has an endpoint that no atom declares
Undeclared(j) ==
  \/ input.bonds[j].start_atom_id \notin InputAtomIds
  \/ input.bonds[j].end_atom_id \notin InputAtomIds

FirstRepeat == MinOf({j \in DOMAIN input.bonds : Repeats(j)})

FirstUndeclared == MinOf({j \in DOMAIN input.bonds : Undeclared(j)})

\* C3 as stated: whenever some bond repeats the endpoint pair of an
\* earlier bond, the call fails with DuplicateBond carrying the start and
\* end of the repeating bond, and returns no systems.
C3_AsStated ==
  (pc = "done" /\ \E j \in DOMAIN input.bonds : Repeats(j)) =>
    /\ result.kind = "Err"
    /\ result.error = DuplicateBond(input.bonds[FirstRepeat].start_atom_id,
                                    input.bonds[FirstRepeat].end_atom_id)
    /\ result.systems = <<>>

\* C3 (amended): whenever some bond repeats the endpoint pair of an earlier
\* bond, in the same or the reversed orientation, and no bond before the
\* first such bond has an undeclared endpoint, the call fails with
\* DuplicateBond carrying the start and end of that bond as it lists them,
\* and returns no systems.
C3_DuplicateBond ==
  (/\ pc = "done"
   /\ \E j \in DOMAIN input.bonds : Repeats(j)
   /\ \A k \in 1..(FirstRepeat - 1) : ~Undeclared(k)) =>
    /\ result.kind = "Err"
    /\ result.error = DuplicateBond(input.bonds[FirstRepeat].start_atom_id,
                                    input.bonds[FirstRepeat].end_atom_id)
    /\ result.systems = <<>>

\* a bond listed as (1, 2) is followed by one listed as (2, 1), and the
\* error names 2 as start and 1 as end
C3_Witness ==
  /\ pc = "done"
  /\ Len(input.bonds) >= 2
  /\ <<input.bonds[1].start_atom_id, input.bonds[1].end_atom_id>> = <<1, 2>>
  /\ <<input.bonds[2].start_atom_id, input.bonds[2].end_atom_id>> = <<2, 1>>
  /\ result.error = DuplicateBond(2, 1)

\* the id reported for bond j: its start when undeclared, else its end
ReportedEndpoint(j) ==
  IF input.bonds[j].start_atom_id \notin InputAtomIds
    THEN input.bonds[j].start_atom_id
  ELSE input.bonds[j].end_atom_id

\* C4 as stated: whenever some bond has an undeclared endpoint, the call
\* fails with InconsistentGraph for the first such bond, reporting its
\* start when both ends are undeclared, and returns no systems.
C4_AsStated ==
  (pc = "done" /\ \E j \in DOMAIN input.bonds : Undeclared(j)) =>
    /\ result.kind = "Err"
    /\ result.error = InconsistentGraph(ReportedEndpoint(FirstUndeclared))
    /\ result.systems = <<>>

\* C4 (amended): whenever some bond has an undeclared endpoint and no bond
\* before the first such bond repeats an earlier endpoint pair, the call
\* fails with InconsistentGraph(id), id being the undeclared endpoint of
\* that bond (its start when both are undeclared), and returns no systems.
C4_InconsistentGraph ==
  (/\ pc = "done"
   /\ \E j \in DOMAIN input.bonds : Undeclared(j)
   /\ \A k \in 1..(FirstUndeclared - 1) : ~Repeats(k)) =>
    /\ result.kind = "Err"
    /\ result.error = InconsistentGraph(ReportedEndpoint(FirstUndeclared))
    /\ result.systems = <<>>

\* a sound bond is followed by a bond whose two ends, 8 and 9, are both
\* undeclared, and the error names 8
C4_Witness ==
  /\ pc = "done"
  /\ Len(input.bonds) >= 2
  /\ ~Undeclared(1)
  /\ <<input.bonds[2].start_atom_id, input.bonds[2].end_atom_id>> = <<8, 9>>
  /\ result.error = InconsistentGraph(8)

\* bond j of the input joins an atom to itself
SelfLoopAt(j) == input.bonds[j].start_atom_id = input.bonds[j].end_atom_id

\* C5: a self-loop is rejected with DuplicateBond, also when it is the
\* first bond on its atom, and no self-loop is ever stored in the
\* perception (so none reaches the adjacency lists or the ring finder).
C5_SelfLoopRejected ==
  /\ \A k \in DOMAIN bonds : bonds[k].start_atom_id # bonds[k].end_atom_id
  /\ (/\ pc = "done"
      /\ \E j \in DOMAIN input.bonds :
           /\ SelfLoopAt(j)
           /\ \A k \in 1..(j - 1) : ~Undeclared(k) /\ ~Repeats(k) /\ ~SelfLoopAt(k)
           /\ ~Undeclared(j)) =>
       result.kind = "Err" /\ result.error.type = "DuplicateBond"

\* the atoms of the input reachable from the atoms in S along its bonds
RECURSIVE ReachFrom(_)
ReachFrom(S) ==
  LET T == S \cup UNION {{input.bonds[k].start_atom_id, input.bonds[k].end_atom_id} :
                           k \in {j \in DOMAIN input.bonds :
                                    \/ input.bonds[j].start_atom_id \in S
                                    \/ input.bonds[j].end_atom_id \in S}}
  IN IF T = S THEN S ELSE ReachFrom(T)

\* |E| - |V| + C of the input graph
Cyclomatic ==
  Len(input.bonds) - Len(input.atoms)
    + Cardinality({ReachFrom({a}) : a \in InputAtomIds})

\* C6: the number of rings find_sssr returns is the cyclomatic number
\* |E| - |V| + C of the molecular graph, and zero when that is not positive.
C6_RingCount ==
  AfterRings => Len(ring_info) = Max2(Cyclomatic, 0)

\* the bond ids that lie in an odd number of the rings indexed by S
XorOfRings(S) ==
  {b \in InputBondIds :
     Cardinality({i \in S : b \in Range(ring_info[i].bond_ids)}) % 2 = 1}

\* C7: the returned rings are linearly independent over GF(2): no
\* non-empty subset of them has bond sets whose symmetric difference is
\* empty.
C7_RingsIndependent ==
  AfterRings =>
    \A S \in SUBSET DOMAIN ring_info : S # {} => XorOfRings(S) # {}

\* the atoms reachable from the atoms in S along the bonds with id in ids
RECURSIVE ReachWithin(_, _)
ReachWithin(S, ids) ==
  LET T == S \cup UNION {{input.bonds[k].start_atom_id, input.bonds[k].end_atom_id} :
                           k \in {j \in DOMAIN input.bonds :
                                    /\ input.bonds[j].id \in ids
                                    /\ \/ input.bonds[j].start_atom_id \in S
                                       \/ input.bonds[j].end_atom_id \in S}}
  IN IF T = S THEN S ELSE ReachWithin(T, ids)

\* C8: every returned ring has as many atoms as bonds, and its bonds form
\* one simple cycle through exactly its atoms: every ring atom is an
\* endpoint of exactly two of the ring's bonds.
C8_RingIsSimpleCycle ==
  AfterRings =>
    \A r \in DOMAIN ring_info :
      LET A == Range(ring_info[r].atom_ids)
          B == Range(ring_info[r].bond_ids)
      IN /\ Len(ring_info[r].atom_ids) = Len(ring_info[r].bond_ids)
         /\ EndpointsOf(B) = A
         /\ \A a \in A : Cardinality({b \in B : a \in EndpointsOf({b})}) = 2
         /\ \A a \in A : ReachWithin({a}, B) = A

\* C9: when fewer independent rings are found than the cyclomatic number
\* requires, the call ends with RingPerceptionFailed and never carries on
\* with too few rings.
C9_RingPerceptionFailed ==
  (AfterRings /\ Len(ring_info) < Cyclomatic) =>
    pc = "done" /\ result.kind = "Err" /\ result.error.type = "RingPerceptionFailed"

\* C10: after a successful from_graph a bond has a kekule_order exactly
\* when it is flagged aromatic, that order is Single or Double, and both
\* endpoints of every aromatic bond are flagged aromatic.
C10_KekuleOrderIffAromatic ==
  Perceived =>
    \A k \in DOMAIN bonds :
      /\ (bonds[k].kekule_order # "None") <=> bonds[k].is_aromatic
      /\ bonds[k].kekule_order \in {"None", "Single", "Double"}
      /\ bonds[k].is_aromatic =>
           /\ atoms[atom_id_to_index[bonds[k].start_atom_id]].is_aromatic
           /\ atoms[atom_id_to_index[bonds[k].end_atom_id]].is_aromatic

\* from_graph has succeeded on a graph with aromatic bonds given as Single
\* and Double, next to bonds that are not aromatic
C10_Witness ==
  /\ Perceived
  /\ \E k \in DOMAIN bonds :
       bonds[k].is_aromatic /\ bonds[k].order # "Aromatic" /\ bonds[k].kekule_order = "Double"
  /\ \E k \in DOMAIN bonds : bonds[k].is_aromatic /\ bonds[k].kekule_order = "Single"
  /\ \E k \in DOMAIN bonds : ~bonds[k].is_aromatic

\* kekulize has returned Ok
AfterKekulize == pc \in {"state", "determine", "find_systems"} \/ Succeeded

\* the indices of the aromatic bonds with kekule_order Double that have
\* the atom with id a as an endpoint
AromaticDoublesAt(a) ==
  {k \in DOMAIN bonds :
     /\ bonds[k].is_aromatic
     /\ bonds[k].kekule_order = "Double"
     /\ a \in {bonds[k].start_atom_id, bonds[k].end_atom_id}}

\* the indices of the aromatic bonds that have the atom with id a as an
\* endpoint
AromaticBondsAt(a) ==
  {k \in DOMAIN bonds :
     bonds[k].is_aromatic /\ a \in {bonds[k].start_atom_id, bonds[k].end_atom_id}}

\* C11: after a successful kekulize no atom is an endpoint of two aromatic
\* bonds whose kekule_order is Double.
C11_NoTwoDoublesAtAnAtom ==
  AfterKekulize => \A a \in InputAtomIds : Cardinality(AromaticDoublesAt(a)) <= 1

\* an atom shared by two rings carries three aromatic bonds, one of them
\* Double
C11_Witness ==
  /\ AfterKekulize
  /\ \E a \in InputAtomIds :
       Cardinality(AromaticBondsAt(a)) = 3 /\ Cardinality(AromaticDoublesAt(a)) = 1

\* the ids of the atoms joined to the atoms in S by aromatic bonds
RECURSIVE AromaticReach(_)
AromaticReach(S) ==
  LET T == S \cup UNION {{bonds[k].start_atom_id, bonds[k].end_atom_id} :
                           k \in UNION {AromaticBondsAt(a) : a \in S}}
  IN IF T = S THEN S ELSE AromaticReach(T)

\* the atom sets of the connected components of aromatic bonds
AromaticComponents ==
  {AromaticReach({a}) : a \in {x \in InputAtomIds : AromaticBondsAt(x) # {}}}

\* the component with atoms A has a perfect matching: a set of its bonds
\* that covers each of its atoms exactly once
HasPerfectMatching(A) ==
  \E M \in SUBSET (UNION {AromaticBondsAt(a) : a \in A}) :
    \A a \in A : Cardinality({k \in M : k \in AromaticBondsAt(a)}) = 1

\* C12: whenever a connected component of aromatic bonds has a perfect
\* matching, a successful kekulize leaves every atom of the component with
\* exactly one aromatic bond of kekule_order Double.
C12_PerfectMatchingFound ==
  AfterKekulize =>
    \A A \in AromaticComponents :
      HasPerfectMatching(A) => \A a \in A : Cardinality(AromaticDoublesAt(a)) = 1

\* the indices of the bonds that carry a kekule_order
KekuleAssigned == {k \in DOMAIN bonds : bonds[k].kekule_order # "None"}

\* the number of bonds in the aromatic component that kekulize's loop
\* stands at
ComponentSizeAtLoop ==
  Len(collect_aromatic_component(P, kekulize_bond_idx, kekulize_visited).component)

\* C13: kekulize counts every entry of kekule_backtrack that has a bond to
\* assign against one counter shared by all components of the call; the
\* entry that finds the counter at KEKULIZATION_ATTEMPT_LIMIT makes the
\* whole call fail with KekulizationFailed carrying the counter, which is
\* what find_resonance_systems then returns.
C13_SharedAttemptBudget ==
  /\ total_attempts <= KEKULIZATION_ATTEMPT_LIMIT
  /\ pc = "kekulize" => total_attempts = Cardinality(KekuleAssigned)
  /\ pc = "state" =>
       /\ result = Pending
       /\ total_attempts = Cardinality({k \in DOMAIN bonds : bonds[k].is_aromatic})
  /\ pc = "done" =>
       /\ result = Err(KekulizationFailed(KEKULIZATION_ATTEMPT_LIMIT))
       /\ total_attempts = KEKULIZATION_ATTEMPT_LIMIT
       /\ Cardinality(KekuleAssigned) <= KEKULIZATION_ATTEMPT_LIMIT
       /\ Cardinality(KekuleAssigned) + ComponentSizeAtLoop > KEKULIZATION_ATTEMPT_LIMIT

\* the call has failed in a later component, part of whose bonds were
\* still within the budget that the earlier components had left
C13_Witness ==
  /\ pc = "done"
  /\ result.error = KekulizationFailed(KEKULIZATION_ATTEMPT_LIMIT)
  /\ kekulize_bond_idx > 1
  /\ Cardinality(KekuleAssigned) < KEKULIZATION_ATTEMPT_LIMIT

\* aromaticity::perceive has returned
AfterAromaticity ==
  pc \in {"kekulize", "state", "determine", "find_systems"} \/ AfterKekulize

\* the rings joined to the rings in S through chains of rings that share a
\* bond
RECURSIVE FusedWith(_)
FusedWith(S) ==
  LET T == S \cup {r \in DOMAIN ring_info :
                     \E q \in S : Range(ring_info[r].bond_ids)
                                    \cap Range(ring_info[q].bond_ids) # {}}
  IN IF T = S THEN S ELSE FusedWith(T)

FusedSystems == {FusedWith({r}) : r \in DOMAIN ring_info}

SystemAtomIds(S) == UNION {Range(ring_info[r].atom_ids) : r \in S}

SystemBondIds(S) == UNION {Range(ring_info[r].bond_ids) : r \in S}

InputAtom(a) == input.atoms[CHOOSE i \in DOMAIN input.atoms : input.atoms[i].id = a]

\* the number of bond ends on the atom with id a
DegreeOf(a) ==
  Cardinality({k \in DOMAIN input.bonds : input.bonds[k].start_atom_id = a})
    + Cardinality({k \in DOMAIN input.bonds : input.bonds[k].end_atom_id = a})

\* the pi electrons the atom with id a gives to the system S
PiElectronsOf(a, S) ==
  IF \E k \in DOMAIN input.bonds :
       /\ input.bonds[k].id \in SystemBondIds(S)
       /\ a \in {input.bonds[k].start_atom_id, input.bonds[k].end_atom_id}
       /\ input.bonds[k].order \in {"Double", "Triple"}
    THEN 1
  ELSE IF \/ InputAtom(a).element = "N" /\ DegreeOf(a) = 3 /\ InputAtom(a).formal_charge # 1
          \/ InputAtom(a).element \in {"O", "S"} /\ DegreeOf(a) = 2
          \/ InputAtom(a).element = "C" /\ DegreeOf(a) = 3 /\ InputAtom(a).formal_charge = -1
    THEN 2
  ELSE 0

RECURSIVE SumPiElectrons(_, _)
SumPiElectrons(A, S) ==
  IF A = {} THEN 0
  ELSE LET a == CHOOSE x \in A : TRUE
       IN PiElectronsOf(a, S) + SumPiElectrons(A \ {a}, S)

\* the system S meets the conditions under which it is to be marked
Hueckel(S) ==
  /\ \A a \in SystemAtomIds(S) :
       /\ DegreeOf(a) <= 3
       /\ InputAtom(a).element \in
            {"B", "C", "N", "O", "P", "S", "Si", "As", "Se", "Ge", "F", "Cl", "Br", "I"}
  /\ SumPiElectrons(SystemAtomIds(S), S) > 0
  /\ SumPiElectrons(SystemAtomIds(S), S) % 4 = 2

\* C14: the topological pass marks a fused ring system exactly when all
\* its atoms have degree <= 3 and a conjugation element and its pi total T
\* has T > 0 and T = 2 (mod 4); marking flags every atom and bond of the
\* system, and flags of the explicit pass stay set.  So after the pass a
\* bond is aromatic exactly when its input order is Aromatic or it lies in
\* such a system, and an atom exactly when it ends an Aromatic bond or
\* lies in such a system.
C14_HueckelMarking ==
  AfterAromaticity =>
    /\ \A k \in DOMAIN bonds :
         bonds[k].is_aromatic <=>
           \/ bonds[k].order = "Aromatic"
           \/ \E S \in FusedSystems : Hueckel(S) /\ bonds[k].id \in SystemBondIds(S)
    /\ \A i \in DOMAIN atoms :
         atoms[i].is_aromatic <=>
           \/ \E k \in DOMAIN bonds :
                /\ bonds[k].order = "Aromatic"
                /\ atoms[i].id \in {bonds[k].start_atom_id, bonds[k].end_atom_id}
           \/ \E S \in FusedSystems : Hueckel(S) /\ atoms[i].id \in SystemAtomIds(S)

\* the pass is over and has marked a ring system on its count of six, two
\* of which come from the lone pair of one atom; a bond outside the system
\* is left unmarked
C14_Witness ==
  /\ pc = "kekulize"
  /\ \E S \in FusedSystems :
       /\ Hueckel(S)
       /\ SumPiElectrons(SystemAtomIds(S), S) = 6
       /\ \E a \in SystemAtomIds(S) : PiElectronsOf(a, S) = 2
       /\ \A k \in DOMAIN bonds : bonds[k].id \in SystemBondIds(S) => bonds[k].is_aromatic
       /\ \E k \in DOMAIN bonds : ~bonds[k].is_aromatic

\* state::perceive has returned
AfterState == pc \in {"determine", "find_systems"} \/ Succeeded

\* the multiplicity of the effective order of the bond at index k
EffectiveMultiplicity(k) ==
  LET o == IF bonds[k].kekule_order # "None" THEN bonds[k].kekule_order
           ELSE bonds[k].order
  IN IF o = "Double" THEN 2 ELSE IF o = "Triple" THEN 3 ELSE 1

\* the ends that bonds of multiplicity m have on the atom with id a
EndsOn(a, m) ==
  {<<k, e>> \in (DOMAIN bonds) \X {"start", "end"} :
     /\ EffectiveMultiplicity(k) = m
     /\ a = (IF e = "start" THEN bonds[k].start_atom_id ELSE bonds[k].end_atom_id)}

\* the sum of the multiplicities of the bonds on the atom with id a, a bond
\* counted once for every end it has on the atom
ValenceSum(a) ==
  Cardinality(EndsOn(a, 1)) + 2 * Cardinality(EndsOn(a, 2))
    + 3 * Cardinality(EndsOn(a, 3))

\* C15: after state::perceive every atom's total_valence is the sum, over
\* its incident bonds, of the multiplicity of the bond's effective order,
\* and 255 when that sum is above 255.
C15_ValenceSaturates ==
  AfterState =>
    \A i \in DOMAIN atoms :
      atoms[i].total_valence = Min2(ValenceSum(atoms[i].id), 255)

\* an atom whose bond orders add up to more than 255 has total_valence 255
C15_Witness ==
  /\ AfterState
  /\ \E i \in DOMAIN atoms :
       ValenceSum(atoms[i].id) > 255 /\ atoms[i].total_valence = 255

\* the same atoms and bonds as the input, yielded in other orders
Reorderings ==
  {ReverseBonds(input), ReverseAtoms(input), ReverseAtoms(ReverseBonds(input))}

\* what the claim compares: the error kind, or the list of systems
OutcomeOf(r) == <<r.kind, r.error.type, r.systems>>

\* C16: a graph with the same atoms and bonds as the input, yielded in
\* another order, has the outcome the input has (the same error kind or
\* the same list of systems).
C16_OrderIndependent ==
  pc = "done" =>
    \A g \in Reorderings :
      OutcomeOf(result) \in {OutcomeOf(r) : r \in find_resonance_systems(g)}

\* the input with every Aromatic bond given its perceived kekule_order
KekuleForm ==
  Graph(input.atoms,
        [k \in DOMAIN input.bonds |->
           IF input.bonds[k].order = "Aromatic"
             THEN [input.bonds[k] EXCEPT
                     !.order = bonds[bond_id_to_index[input.bonds[k].id]].kekule_order]
           ELSE input.bonds[k]])

\* C17: when find_resonance_systems succeeds, running it on the input with
\* each Aromatic bond replaced by its perceived kekule_order succeeds with
\* the same systems (in the same build: a run that went on past a wrapped
\* Hueckel subtraction is compared with a second run that does too).
C17_KekuleFormSameSystems ==
  Succeeded =>
    \A r \in find_resonance_systems(KekuleForm) \ {Panicked} :
      r.kind = "Ok" /\ r.systems = result.systems

\* C18: for biphenyl find_resonance_systems returns two systems, each of
\* six atoms and six bonds, and the inter-ring bond (id 12) is in neither.
C18_BiphenylTwoSystems ==
  (Succeeded /\ input = Biphenyl) =>
    /\ Len(result.systems) = 2
    /\ \A s \in DOMAIN result.systems :
         /\ Len(result.systems[s].atoms) = 6
         /\ Len(result.systems[s].bonds) = 6
         /\ 12 \notin Range(result.systems[s].bonds)

\* the input bonds on the atom with id a
InputBondsAt(a) ==
  {k \in DOMAIN input.bonds :
     a \in {input.bonds[k].start_atom_id, input.bonds[k].end_atom_id}}

\* the atom at the other end of input bond k from atom a
InputOtherEnd(k, a) ==
  IF input.bonds[k].start_atom_id = a THEN input.bonds[k].end_atom_id
  ELSE input.bonds[k].start_atom_id

\* atom a is H, or a neutral carbon with four Single bonds
HydrogenOrSaturatedCarbon(a) ==
  \/ InputAtom(a).element = "H"
  \/ /\ InputAtom(a).element = "C"
     /\ InputAtom(a).formal_charge = 0
     /\ Cardinality(InputBondsAt(a)) = 4
     /\ \A k \in InputBondsAt(a) : input.bonds[k].order = "Single"

\* the carboxylate groups of the input, each as <<the C=O bond, the C-O(-)
\* bond, the bond to the third neighbour>> (indices into input.bonds)
CarboxylateGroups ==
  {g \in (DOMAIN input.bonds) \X (DOMAIN input.bonds) \X (DOMAIN input.bonds) :
     \E c \in InputAtomIds :
       /\ InputAtom(c).element = "C" /\ InputAtom(c).formal_charge = 0
       /\ InputBondsAt(c) = {g[1], g[2], g[3]}
       /\ Cardinality({g[1], g[2], g[3]}) = 3
       /\ input.bonds[g[1]].order = "Double"
       /\ InputAtom(InputOtherEnd(g[1], c)).element = "O"
       /\ InputAtom(InputOtherEnd(g[1], c)).formal_charge = 0
       /\ Cardinality(InputBondsAt(InputOtherEnd(g[1], c))) = 1
       /\ input.bonds[g[2]].order = "Single"
       /\ InputAtom(InputOtherEnd(g[2], c)).element = "O"
       /\ InputAtom(InputOtherEnd(g[2], c)).formal_charge = -1
       /\ Cardinality(InputBondsAt(InputOtherEnd(g[2], c))) = 1
       /\ input.bonds[g[3]].order = "Single"
       /\ HydrogenOrSaturatedCarbon(InputOtherEnd(g[3], c))}

\* the atoms at the ends of the two C-O bonds of a group
CarboxylateAtomIds(g) ==
  {input.bonds[g[1]].start_atom_id, input.bonds[g[1]].end_atom_id,
   input.bonds[g[2]].start_atom_id, input.bonds[g[2]].end_atom_id}

\* C19: for an input with a carboxylate group (C bonded to O by a Double
\* bond, to O(-1) by a Single bond, and to an H or a saturated carbon),
\* find_resonance_systems succeeds and exactly one of its systems touches
\* the group; that system's atoms are the carbon and the two oxygens and
\* its bonds are the two C-O bonds.
C19_CarboxylateSystem ==
  (pc = "done" /\ CarboxylateGroups # {}) =>
    /\ result.kind = "Ok"
    /\ \A g \in CarboxylateGroups :
         LET touching == {s \in DOMAIN result.systems :
                            \/ Range(result.systems[s].atoms) \cap CarboxylateAtomIds(g) # {}
                            \/ Range(result.systems[s].bonds)
                                 \cap {input.bonds[g[1]].id, input.bonds[g[2]].id,
                                       input.bonds[g[3]].id} # {}}
         IN /\ Cardinality(touching) = 1
            /\ \A s \in touching :
                 /\ result.systems[s].atoms = SortedSeqOf(CarboxylateAtomIds(g))
                 /\ result.systems[s].bonds =
                      SortedSeqOf({input.bonds[g[1]].id, input.bonds[g[2]].id})

\* glycine zwitterion has run and its one system is atoms [2,3,4], bonds [2,3]
C19_Witness ==
  /\ pc = "done"
  /\ input = GlycineZwitterion
  /\ CarboxylateGroups = {<<4, 3, 2>>}
  /\ result = Ok(<<[atoms |-> <<2, 3, 4>>, bonds |-> <<2, 3>>]>>)

\* benzene with alternating Double/Single ring bonds and a hydrogen on each
\* carbon, as built, with its bonds reversed, and with its ids relabelled
KekuleBenzenes ==
  {Benzene(KekuleOrders), ReverseBonds(Benzene(KekuleOrders)),
   Relabel(Benzene(KekuleOrders))}

\* the ids of the input's carbons
CarbonIds == {a \in InputAtomIds : InputAtom(a).element = "C"}

\* the ids of the input's bonds between two carbons
CarbonCarbonBondIds ==
  {input.bonds[k].id : k \in {j \in DOMAIN input.bonds :
     /\ input.bonds[j].start_atom_id \in CarbonIds
     /\ input.bonds[j].end_atom_id \in CarbonIds}}

\* C20: for benzene given with alternating Double/Single ring bonds and
\* one hydrogen per carbon, find_resonance_systems returns exactly one
\* system: its atoms are the six carbons and its bonds the six ring bonds,
\* so no hydrogen and no C-H bond is in it.
C20_BenzeneOneSystem ==
  (pc = "done" /\ input \in KekuleBenzenes) =>
    result = Ok(<<[atoms |-> SortedSeqOf(CarbonIds),
                   bonds |-> SortedSeqOf(CarbonCarbonBondIds)]>>)

\* benzene as the crate's example builds it has run: atoms 0..5, bonds 0..5
C20_Witness ==
  /\ pc = "done"
  /\ input = Benzene(KekuleOrders)
  /\ Cardinality(CarbonIds) = 6
  /\ Cardinality(CarbonCarbonBondIds) = 6
  /\ result = Ok(<<[atoms |-> <<0, 1, 2, 3, 4, 5>>, bonds |-> <<0, 1, 2, 3, 4, 5>>]>>)

\* what add_bond is to return for a call on molecule m: SelfLoopBond, then
\* AtomNotFound, then DuplicateBond (a bond between the two atoms in either
\* direction), otherwise Ok
ExpectedAddBond(m, s, e) ==
  IF s = e THEN "SelfLoopBond"
  ELSE IF s >= Len(m.atoms) \/ e >= Len(m.atoms) THEN "AtomNotFound"
  ELSE IF \E k \in DOMAIN m.bonds :
            {m.bonds[k].start_atom_id, m.bonds[k].end_atom_id} = {s, e}
         THEN "DuplicateBond"
  ELSE "Ok"

\* ids in insertion order, bonds between distinct existing atoms, one bond
\* at most per unordered pair
MoleculeWellFormed(m) ==
  /\ \A i \in DOMAIN m.atoms : m.atoms[i].id = i - 1
  /\ \A k \in DOMAIN m.bonds :
       /\ m.bonds[k].id = k - 1
       /\ m.bonds[k].start_atom_id # m.bonds[k].end_atom_id
       /\ {m.bonds[k].start_atom_id, m.bonds[k].end_atom_id} \subseteq 0..(Len(m.atoms) - 1)
  /\ \A j, k \in DOMAIN m.bonds :
       j # k => {m.bonds[j].start_atom_id, m.bonds[j].end_atom_id}
                  # {m.bonds[k].start_atom_id, m.bonds[k].end_atom_id}

\* C21: a Molecule stays well formed under add_atom and add_bond; add_bond
\* returns SelfLoopBond, AtomNotFound, DuplicateBond in that order of
\* precedence and then leaves the molecule as it was; from_graph on a
\* Molecule returns neither InconsistentGraph nor DuplicateBond.
C21_MoleculeWellFormed ==
  /\ MoleculeWellFormed(molecule)
  /\ last_call.op = "add_bond" =>
       /\ last_call.ret.type = ExpectedAddBond(last_call.before, last_call.start, last_call.end)
       /\ last_call.ret.type # "Ok" => molecule = last_call.before
  /\ (input = MoleculeGraph(molecule) /\ pc \in {"find_sssr", "done"}) =>
       result.error.type \notin {"InconsistentGraph", "DuplicateBond"}

\* a molecule with a bond 0-1 has refused the bond 1-0 as a duplicate,
\* and from_graph has accepted the molecule
C21_Witness ==
  /\ last_call.op = "add_bond"
  /\ last_call.ret.type = "DuplicateBond"
  /\ last_call.start > last_call.end
  /\ \E k \in DOMAIN molecule.bonds :
       /\ molecule.bonds[k].start_atom_id = last_call.end
       /\ molecule.bonds[k].end_atom_id = last_call.start
  /\ pc = "find_sssr"
  /\ input = MoleculeGraph(molecule)

\* the perceived atom with id a is a conjugation candidate
IsCandidate(a) ==
  \E i \in DOMAIN atoms : atoms[i].id = a /\ atoms[i].is_conjugation_candidate

\* bond index k is a seed: flagged aromatic, or of effective order Double
\* or Triple
SeedBonds ==
  {k \in DOMAIN bonds :
     \/ bonds[k].is_aromatic
     \/ EffectiveMultiplicity(k) \in {2, 3}}

\* one application of the rule: the bonds at a candidate endpoint of a bond
\* of S whose other endpoint is a candidate too
OneStep(S) ==
  {n \in DOMAIN bonds :
     \E k \in S : \E a \in {bonds[k].start_atom_id, bonds[k].end_atom_id} :
       /\ IsCandidate(a)
       /\ a \in {bonds[n].start_atom_id, bonds[n].end_atom_id}
       /\ IsCandidate(IF bonds[n].start_atom_id = a THEN bonds[n].end_atom_id
                      ELSE bonds[n].start_atom_id)}

\* the least set that contains S and is closed under the rule
RECURSIVE LeastClosed(_)
LeastClosed(S) == IF OneStep(S) \subseteq S THEN S ELSE LeastClosed(S \cup OneStep(S))

ReturnedBondIds == UNION {Range(Systems[i].bonds) : i \in DOMAIN Systems}

\* C22: the bonds in the returned systems are exactly the least set that
\* contains every seed bond and is closed under the expansion rule.
C22_ReturnedBondsAreClosure ==
  Succeeded => ReturnedBondIds = {bonds[k].id : k \in LeastClosed(SeedBonds)}

\* a returned bond that is no seed, next to a Single bond that is not
\* returned because one of its ends is no candidate
C22_Witness ==
  /\ Succeeded
  /\ \E k \in DOMAIN bonds : k \notin SeedBonds /\ bonds[k].id \in ReturnedBondIds
  /\ \E k \in DOMAIN bonds :
       /\ bonds[k].id \notin ReturnedBondIds
       /\ ~IsCandidate(bonds[k].end_atom_id)
       /\ \E n \in DOMAIN bonds :
            n # k /\ bonds[n].id \in ReturnedBondIds
              /\ bonds[k].start_atom_id \in {bonds[n].start_atom_id, bonds[n].end_atom_id}

\* the hybridization the first pass of perceive_hybridization gives the
\* atom at index i: SP2 when aromatic, else by degree plus lone pairs
AssignedHybridization(i) ==
  IF atoms[i].is_aromatic THEN "SP2"
  ELSE LET steric_number == Min2(atoms[i].total_degree + atoms[i].lone_pairs, 255)
       IN IF steric_number = 2 THEN "SP"
          ELSE IF steric_number = 3 THEN "SP2"
          ELSE IF steric_number = 4 THEN "SP3"
          ELSE "Unknown"

\* the indices of the atoms joined by a bond to the atom at index i
NeighboursOf(i) ==
  {j \in DOMAIN atoms :
     \E k \in DOMAIN bonds :
       \/ (bonds[k].start_atom_id = atoms[i].id /\ bonds[k].end_atom_id = atoms[j].id)
       \/ (bonds[k].end_atom_id = atoms[i].id /\ bonds[k].start_atom_id = atoms[j].id)}

\* C23: an atom assigned SP3 with lone pairs ends SP2 exactly when a
\* neighbour was assigned SP or SP2; every other atom keeps what it was
\* assigned, so a correction never enables another one.
C23_CorrectionUsesSnapshot ==
  AfterState =>
    \A i \in DOMAIN atoms :
      atoms[i].hybridization =
        IF /\ AssignedHybridization(i) = "SP3"
           /\ atoms[i].lone_pairs > 0
           /\ \E j \in NeighboursOf(i) : AssignedHybridization(j) \in {"SP", "SP2"}
          THEN "SP2"
        ELSE AssignedHybridization(i)

\* an SP3 atom with lone pairs stays SP3 next to an atom that the
\* correction made SP2 and that comes before it in the atom order
C23_Witness ==
  /\ AfterState
  /\ \E i, j \in DOMAIN atoms :
       /\ j < i
       /\ j \in NeighboursOf(i)
       /\ AssignedHybridization(j) = "SP3" /\ atoms[j].hybridization = "SP2"
       /\ atoms[i].lone_pairs > 0
       /\ atoms[i].hybridization = "SP3"

\* determine has returned
AfterDetermine == pc = "find_systems" \/ Succeeded

\* the atom at index i is a neutral oxygen of degree above 1 with a
\* neighbour that has the role HypervalentBridge
OxygenAtBridge(i) ==
  /\ atoms[i].element = "O"
  /\ atoms[i].formal_charge = 0
  /\ atoms[i].total_degree > 1
  /\ \E j \in NeighboursOf(i) : "HYPERVALENT_BRIDGE" \in atoms[j].conjugation_roles

\* C24: after determine a neutral oxygen of degree above 1 next to a
\* HypervalentBridge has no role and is no conjugation candidate.
C24_BridgingOxygenExcluded ==
  AfterDetermine =>
    \A i \in DOMAIN atoms :
      OxygenAtBridge(i) =>
        atoms[i].conjugation_roles = {} /\ ~atoms[i].is_conjugation_candidate

\* such an oxygen that is SP2 and has lone pairs
C24_Witness ==
  /\ AfterDetermine
  /\ \E i \in DOMAIN atoms :
       /\ OxygenAtBridge(i)
       /\ atoms[i].hybridization = "SP2"
       /\ atoms[i].lone_pairs > 0
       /\ atoms[i].conjugation_roles = {}

\* sequences a and b of records agree on every field outside F
SameExcept(a, b, F) ==
  /\ DOMAIN a = DOMAIN b
  /\ \A i \in DOMAIN a : \A f \in (DOMAIN a[i]) \ F : a[i][f] = b[i][f]

\* the stage that runs at each position, the position after it, and the
\* fields of atoms and of bonds it may write
StageAfter ==
  [from_graph |-> "find_sssr", find_sssr |-> "aromaticity", aromaticity |-> "kekulize",
   kekulize |-> "state", state |-> "determine", determine |-> "find_systems",
   find_systems |-> "done"]

AtomFieldsOf ==
  [find_sssr |-> {"is_in_ring"}, aromaticity |-> {"is_aromatic"}, kekulize |-> {},
   state |-> {"total_valence", "lone_pairs", "hybridization"},
   determine |-> {"conjugation_roles", "is_conjugation_candidate"},
   find_systems |-> {}]

BondFieldsOf ==
  [find_sssr |-> {"is_in_ring"}, aromaticity |-> {"is_aromatic"},
   kekulize |-> {"kekule_order"}, state |-> {}, determine |-> {}, find_systems |-> {}]

StageStep ==
  /\ pc # "done"
  /\ pc' \in {StageAfter[pc], "done"}
  /\ pc' = "done" => pc \in {"from_graph", "aromaticity", "kekulize", "find_systems"}
  /\ pc # "from_graph" =>
       /\ SameExcept(atoms, atoms', AtomFieldsOf[pc])
       /\ SameExcept(bonds, bonds', BondFieldsOf[pc])
       /\ pc # "find_sssr" => ring_info' = ring_info
       /\ adjacency' = adjacency
       /\ atom_id_to_index' = atom_id_to_index
       /\ bond_id_to_index' = bond_id_to_index

\* C25: the stages run in the order build, ring finding, aromaticity,
\* kekulization, state, candidate marking, grouping; each stage after build
\* writes only its own fields of atoms and bonds (ring finding also
\* ring_info), and adjacency and the id-to-index maps stay as built.
C25_StagesWriteOwnFields == [][StageStep]_vars

\* a run in which every stage has written something
C25_Witness ==
  /\ Succeeded
  /\ ring_info # <<>>
  /\ \E i \in DOMAIN atoms :
       /\ atoms[i].is_in_ring /\ atoms[i].is_aromatic
       /\ atoms[i].total_valence > 0 /\ atoms[i].hybridization = "SP2"
       /\ atoms[i].is_conjugation_candidate
  /\ \E k \in DOMAIN bonds :
       bonds[k].is_in_ring /\ bonds[k].is_aromatic /\ bonds[k].kekule_order = "Double"
  /\ Systems # <<>>

\* the number of bonds flagged aromatic
NumAromaticBonds == Cardinality({k \in DOMAIN bonds : bonds[k].is_aromatic})

\* C26: kekulize returns Ok exactly when the graph has no more aromatic
\* bonds than the attempt limit, and has then consumed one attempt for each
\* aromatic bond; otherwise it fails with KekulizationFailed.
C26_OneAttemptPerAromaticBond ==
  /\ pc = "state" =>
       /\ NumAromaticBonds <= KEKULIZATION_ATTEMPT_LIMIT
       /\ total_attempts = NumAromaticBonds
  /\ pc = "done" =>
       /\ result.error.type = "KekulizationFailed"
       /\ NumAromaticBonds > KEKULIZATION_ATTEMPT_LIMIT

\* kekulize has returned Ok on a graph with exactly as many aromatic bonds
\* as the limit
C26_Witness ==
  /\ pc = "state"
  /\ NumAromaticBonds = KEKULIZATION_ATTEMPT_LIMIT
  /\ total_attempts = KEKULIZATION_ATTEMPT_LIMIT
  /\ \A k \in DOMAIN bonds : bonds[k].kekule_order \in {"Single", "Double"}

\* the roles the atom at index j holds from the HypervalentBridge and
\* PiCarrier passes
RolesBeforeDonorPass(j) ==
  atoms[j].conjugation_roles \cap {"HYPERVALENT_BRIDGE", "PI_CARRIER"}

\* the atom at index i qualifies as a lone-pair donor on those roles alone
DonorByEarlierPasses(i) ==
  /\ atoms[i].lone_pairs > 0
  /\ \E j \in NeighboursOf(i) :
       /\ RolesBeforeDonorPass(j) # {}
       /\ "HYPERVALENT_BRIDGE" \in RolesBeforeDonorPass(j) => atoms[i].formal_charge < 0
  /\ ~(atoms[i].element = "O" /\ atoms[i].formal_charge = 0 /\ atoms[i].total_degree > 1)

\* C27: an atom has the role LonePairDonor exactly when it qualifies on the
\* roles its neighbours got in the HypervalentBridge and PiCarrier passes,
\* whatever the order of the atoms.
C27_DonorsIndependentOfOrder ==
  AfterDetermine =>
    \A i \in DOMAIN atoms :
      "LONE_PAIR_DONOR" \in atoms[i].conjugation_roles <=> DonorByEarlierPasses(i)

\* C28: no atom id occurs in two returned systems.
C28_SystemsDisjointInAtoms ==
  Succeeded =>
    \A i, j \in DOMAIN Systems :
      i # j => Range(Systems[i].atoms) \cap Range(Systems[j].atoms) = {}

\* two returned bonds that meet only in an atom that is no candidate lie
\* in one system
C28_Witness ==
  /\ Succeeded
  /\ \E k, n \in DOMAIN bonds : \E i \in DOMAIN atoms :
       /\ k # n
       /\ ~atoms[i].is_conjugation_candidate
       /\ {bonds[k].start_atom_id, bonds[k].end_atom_id}
            \cap {bonds[n].start_atom_id, bonds[n].end_atom_id} = {atoms[i].id}
       /\ \E s \in DOMAIN Systems : {bonds[k].id, bonds[n].id} \subseteq Range(Systems[s].bonds)

\* the fused ring systems the topological pass is about to test
SystemsToTest == find_fused_ring_systems(P)

NoSelfLoop == \A j \in DOMAIN input.bonds : ~SelfLoopAt(j)

\* C29: on an input without self-loop bonds no fused ring system that passes
\* the eligibility check has a pi-electron total of exactly 1, so the
\* subtraction of 2 in the Hueckel test never underflows.
C29_HuckelTotalNeverOne ==
  (pc = "aromaticity" /\ NoSelfLoop) =>
    \A i \in DOMAIN SystemsToTest :
      system_is_eligible(P, SystemsToTest[i]) => pi_electron_count(P, SystemsToTest[i]) # 1

\* an eligible system with a Double bond among its bonds and an atom that
\* counts 0 or 2, whose total is tested by the subtraction
C29_Witness ==
  /\ pc = "aromaticity"
  /\ NoSelfLoop
  /\ \E i \in DOMAIN SystemsToTest :
       LET system == SystemsToTest[i]
           bond_indices == system_bond_indices(P, system)
       IN /\ system_is_eligible(P, system)
          /\ \E k \in bond_indices : bonds[k].order \in {"Double", "Triple"}
          /\ \E a \in system_atom_indices(P, system) :
               pi_electrons_for_atom(P, a, bond_indices) # 1
          /\ pi_electron_count(P, system) >= 2

\* a second kekulize call on the perception as it stands
SecondKekulize == kekulize(P)

\* a second determine call on the perception as it stands
SecondDetermine == determine(P)

\* C30: on a perception that from_graph has completed, a second kekulize
\* call returns Ok, uses no attempts and leaves every kekule_order as it
\* was, and a second determine call leaves every atom's conjugation_roles
\* and is_conjugation_candidate as they were.
C30_StagesIdempotent ==
  AfterDetermine =>
    /\ SecondKekulize.ok
    /\ SecondKekulize.attempts = 0
    /\ \A k \in DOMAIN bonds : SecondKekulize.bonds[k].kekule_order = bonds[k].kekule_order
    /\ \A i \in DOMAIN atoms :
         /\ SecondDetermine.atoms[i].conjugation_roles = atoms[i].conjugation_roles
         /\ SecondDetermine.atoms[i].is_conjugation_candidate
              = atoms[i].is_conjugation_candidate

\* a completed perception with aromatic bonds that the first kekulize call
\* assigned with attempts, and with atoms that have roles
C30_Witness ==
  /\ AfterDetermine
  /\ total_attempts > 0
  /\ \E k \in DOMAIN bonds : bonds[k].is_aromatic /\ bonds[k].kekule_order = "Double"
  /\ \E i \in DOMAIN atoms :
       atoms[i].conjugation_roles # {} /\ atoms[i].is_conjugation_candidate
  /\ \E i \in DOMAIN atoms : ~atoms[i].is_conjugation_candidate

====
